---- MODULE Spec2Model ----
(***************************************************************************)
(* A model of claude-rlm: the per-project memory store (one SQLite file)   *)
(* shared by short-lived hook processes and long-lived server processes.   *)
(*                                                                         *)
(* Tables are functions from row id to a record of the columns the code    *)
(* reads or writes.  One action is one SQL statement (SQLite runs a single *)
(* statement atomically, also across processes) or one function whose body *)
(* holds no statement boundary that another process could observe.         *)
(* Strings whose text is irrelevant are modelled by their byte length.     *)
(***************************************************************************)
EXTENDS Integers, Sequences, FiniteSets, TLC

(***************************************************************************)
(* Bounds of the model.                                                    *)
(***************************************************************************)
MaxTasks == 2
MaxRaceTasks == 3
NumPollers == 3
MaxTurns == 3
MaxKnowledge == 2
MaxHookRuns == 2
MaxIndexRuns == 3
MaxTexts == 2
MaxCatchups == 2
MaxLlmCalls == 2
MaxClock == 2
MaxChain == 3
MaxEvents == 3

(***************************************************************************)
(* Generic helpers.                                                        *)
(***************************************************************************)
Min(a, b) == IF a <= b THEN a ELSE b
Max(a, b) == IF a >= b THEN a ELSE b
SetMin(S) == CHOOSE x \in S : \A y \in S : x <= y
SetMax(S) == CHOOSE x \in S : \A y \in S : x >= y
Range(f) == {f[x] : x \in DOMAIN f}
SatSub(a, b) == IF a >= b THEN a - b ELSE 0

VARIABLES
    background_tasks,   \* table background_tasks: id -> row
    task_seq,           \* AUTOINCREMENT counter of background_tasks
    server,             \* server process -> position in run_server / run_task_poller
    held,               \* server process -> id of the task its poller job executes (0: none)
    returned,           \* ids ever returned by claim_next_task to a server's poller
    claimed,            \* server process -> ids its poller claimed and nothing finalized yet
    race,               \* racing poller -> what its one claim_next_task call returned
    race_pending,       \* the ids that were pending when the race started
    sessions,           \* table sessions: the ids present
    turns,              \* table turns: the rows in primary-key order (id = position)
    turn_files,         \* table turn_files: set of rows
    hook,               \* hook process -> position in its handler's index_turn call
    knowledge,          \* table knowledge: the rows in primary-key order (id = position)
    disabled,           \* the flag file ~/.claude-rlm-disabled exists
    hook_runs,          \* the hook processes started so far, in order, with how they ended
    store,              \* what the queries of a context builder return (strings as byte lengths)
    context,            \* the context string a SessionStart hook built (its byte length)
    symbols,            \* table symbols: the rows in primary-key order
    disk,               \* source file path -> the symbols its current content declares
    indexer,            \* indexing process -> position in its index_file call
    index_runs,         \* the index_file calls started so far
    ranked,             \* a ranked_select call: its arguments and what it returned
    turn_text,          \* table turns, the columns the full-text index covers: id -> row
    turns_fts,          \* table turns_fts: rowid -> the indexed terms of each column
    text_seq,           \* AUTOINCREMENT counter of turns in that part
    reply,              \* the last tool call of the server and its response
    tree,               \* the project directory: relative path -> content of the file
    file_hashes,        \* table file_hashes of the project: file_path -> content_hash
    catchup_log,        \* the files::catchup calls made so far, in order
    db_lock,            \* process -> the thread holding the mutex of its Db ("free": none)
    worker,             \* thread -> position in the operation it runs
    llm_calls,          \* the summarizer calls started so far
    handler,            \* the hook process running SessionEnd or PreCompact: its position
    ended_at,           \* table sessions: the ids whose ended_at is set
    present,            \* the source files that exist in the project directory
    mtime,              \* source file path -> its modification time, in seconds
    last_indexed,       \* table symbols: file_path -> MAX(last_indexed) of its rows
    now,                \* the clock, in seconds
    retrieved,          \* the last retrieval of knowledge: its path and the ids it returned
    boot,               \* server process -> position in the startup of run_server and how it went
    git_head,           \* the commit HEAD of the project names (0: no repository, or no output of git)
    git_state,          \* table git_state: last_commit_hash of the project (0: no row)
    git_run,            \* the last git::catchup call: what it saw and how its index_turn went
    channel,            \* the mpsc channel of the file watcher: the events sent and not yet received
    pending_files,      \* process_events: the set pending_files
    watch,              \* the watcher thread: its position in process_events and the files of its batch
    batch,              \* the paths the watcher thread handled in its current batch, in order
    owed,               \* the accepted paths with an event that no later handling has covered yet
    events_sent,        \* the events notify has sent so far
    version_check       \* update.rs: the two version strings and what is_newer said

taskVars == <<background_tasks, task_seq, server, held, returned, claimed>>
raceVars == <<race, race_pending>>
turnVars == <<sessions, turns, turn_files, hook>>
knowVars == <<knowledge>>
runVars == <<disabled, hook_runs>>
injectVars == <<store, context>>
symVars == <<symbols, disk, indexer, index_runs>>
rankVars == <<ranked>>
ftsVars == <<turn_text, turns_fts, text_seq, reply>>
catchupVars == <<tree, file_hashes, catchup_log>>
distillVars == <<db_lock, worker, llm_calls>>
handlerVars == <<handler, ended_at, present, mtime, last_indexed, now>>
retrVars == <<retrieved>>
bootVars == <<boot>>
gitVars == <<git_head, git_state, git_run>>
watchVars == <<channel, pending_files, watch, batch, owed, events_sent>>
updateVars == <<version_check>>
vars == <<taskVars, raceVars, turnVars, knowVars, runVars, injectVars,
    symVars, rankVars, ftsVars, catchupVars, distillVars, handlerVars,
    retrVars, bootVars, gitVars, watchVars, updateVars>>

\* What the actions of one part of the program leave alone.
exceptTasks == <<raceVars, turnVars, knowVars, runVars, injectVars, symVars,
    rankVars, ftsVars, catchupVars, distillVars, handlerVars, retrVars,
    bootVars, gitVars, watchVars, updateVars>>
exceptRace == <<turnVars, knowVars, runVars, injectVars, symVars, rankVars,
    ftsVars, catchupVars, distillVars, handlerVars, retrVars, bootVars,
    gitVars, watchVars, updateVars>>
exceptTurns == <<taskVars, raceVars, knowVars, runVars, injectVars, symVars,
    rankVars, ftsVars, catchupVars, distillVars, handlerVars, retrVars,
    bootVars, gitVars, watchVars, updateVars>>
exceptKnowledge == <<taskVars, raceVars, turnVars, runVars, injectVars,
    symVars, rankVars, ftsVars, catchupVars, distillVars, handlerVars,
    retrVars, bootVars, gitVars, watchVars, updateVars>>
exceptRuns == <<taskVars, raceVars, turnVars, knowVars, injectVars, symVars,
    rankVars, ftsVars, catchupVars, distillVars, handlerVars, retrVars,
    bootVars, gitVars, watchVars, updateVars>>
exceptInject == <<taskVars, raceVars, turnVars, knowVars, runVars, symVars,
    rankVars, ftsVars, catchupVars, distillVars, handlerVars, retrVars,
    bootVars, gitVars, watchVars, updateVars>>
exceptSymbols == <<taskVars, raceVars, turnVars, knowVars, runVars,
    injectVars, rankVars, ftsVars, catchupVars, distillVars, handlerVars,
    retrVars, bootVars, gitVars, watchVars, updateVars>>
exceptRanked == <<taskVars, raceVars, turnVars, knowVars, runVars,
    injectVars, symVars, ftsVars, catchupVars, distillVars, handlerVars,
    retrVars, bootVars, gitVars, watchVars, updateVars>>
exceptFts == <<taskVars, raceVars, turnVars, knowVars, runVars, injectVars,
    symVars, rankVars, catchupVars, distillVars, handlerVars, retrVars,
    bootVars, gitVars, watchVars, updateVars>>
exceptCatchup == <<taskVars, raceVars, turnVars, knowVars, runVars,
    injectVars, symVars, rankVars, ftsVars, distillVars, handlerVars,
    retrVars, bootVars, gitVars, watchVars, updateVars>>
exceptDistill == <<taskVars, raceVars, turnVars, knowVars, runVars,
    injectVars, symVars, rankVars, ftsVars, catchupVars, handlerVars,
    retrVars, bootVars, gitVars, watchVars, updateVars>>
exceptHandlers == <<taskVars, raceVars, turnVars, knowVars, runVars,
    injectVars, symVars, rankVars, ftsVars, catchupVars, distillVars,
    retrVars, bootVars, gitVars, watchVars, updateVars>>
exceptRetrieval == <<taskVars, raceVars, turnVars, knowVars, runVars,
    injectVars, symVars, rankVars, ftsVars, catchupVars, distillVars,
    handlerVars, bootVars, gitVars, watchVars, updateVars>>
exceptStartup == <<taskVars, raceVars, turnVars, knowVars, runVars,
    injectVars, symVars, rankVars, ftsVars, catchupVars, distillVars,
    handlerVars, retrVars, gitVars, watchVars, updateVars>>
exceptGit == <<taskVars, raceVars, turnVars, knowVars, runVars, injectVars,
    symVars, rankVars, ftsVars, catchupVars, distillVars, handlerVars,
    retrVars, bootVars, watchVars, updateVars>>
exceptWatcher == <<taskVars, raceVars, turnVars, knowVars, runVars,
    injectVars, symVars, rankVars, ftsVars, catchupVars, distillVars,
    handlerVars, retrVars, bootVars, gitVars, updateVars>>
exceptUpdate == <<taskVars, raceVars, turnVars, knowVars, runVars,
    injectVars, symVars, rankVars, ftsVars, catchupVars, distillVars,
    handlerVars, retrVars, bootVars, gitVars, watchVars>>
exceptCatchupAndTurns == <<taskVars, raceVars, knowVars, runVars, injectVars,
    symVars, rankVars, ftsVars, distillVars, handlerVars, retrVars, bootVars,
    gitVars, watchVars, updateVars>>
exceptDistillAndKnowledge == <<taskVars, raceVars, turnVars, runVars,
    injectVars, symVars, rankVars, ftsVars, catchupVars, handlerVars,
    retrVars, bootVars, gitVars, watchVars, updateVars>>
exceptSessionEnd == <<taskVars, raceVars, runVars, injectVars, symVars,
    rankVars, ftsVars, catchupVars, distillVars, retrVars, bootVars, gitVars,
    watchVars, updateVars>>
exceptPreCompact == <<taskVars, raceVars, knowVars, runVars, injectVars,
    rankVars, ftsVars, catchupVars, distillVars, retrVars, bootVars, gitVars,
    watchVars, updateVars>>
exceptRetrievalAndKnowledge == <<taskVars, raceVars, turnVars, runVars,
    injectVars, symVars, rankVars, ftsVars, catchupVars, distillVars,
    handlerVars, bootVars, gitVars, watchVars, updateVars>>
exceptGitAndTurns == <<taskVars, raceVars, knowVars, runVars, injectVars,
    symVars, rankVars, ftsVars, catchupVars, distillVars, handlerVars,
    retrVars, bootVars, watchVars, updateVars>>
exceptWatcherAndHandlers == <<taskVars, raceVars, turnVars, knowVars,
    runVars, injectVars, symVars, rankVars, ftsVars, catchupVars,
    distillVars, retrVars, bootVars, gitVars, updateVars>>
exceptTasksAndHandlers == <<raceVars, turnVars, knowVars, runVars,
    injectVars, symVars, rankVars, ftsVars, catchupVars, distillVars,
    retrVars, bootVars, gitVars, watchVars, updateVars>>

(***************************************************************************)
(* The processes, and each part of the state right after create_tables     *)
(* with no process running.                                                *)
(***************************************************************************)
Servers == {"srv1", "srv2"}
Pollers == 1..NumPollers
Hooks == {"h1", "h2"}

EmptyTable == [i \in {} |-> 0]

NoTask == [id |-> 0, task_type |-> "none"]

IdleHook == [pc |-> "idle", session_id |-> "", turn_type |-> "", files |-> <<>>,
             turn_number |-> 0, turn_id |-> 0]

TasksIdle ==
    /\ background_tasks = EmptyTable
    /\ task_seq = 0
    /\ server = [s \in Servers |-> "down"]
    /\ held = [s \in Servers |-> NoTask]
    /\ returned = {}
    /\ claimed = [s \in Servers |-> {}]

RaceIdle ==
    /\ race = [p \in Pollers |-> -1]
    /\ race_pending = {}

TurnsIdle ==
    /\ sessions = {}
    /\ turns = <<>>
    /\ turn_files = {}
    /\ hook = [h \in Hooks |-> IdleHook]

KnowledgeIdle == knowledge = <<>>

RunsIdle ==
    /\ disabled = FALSE
    /\ hook_runs = <<>>

NoStore == [source |-> "none"]

NoContext == [source |-> "none", len |-> 0, head |-> "", requests |-> <<>>]

InjectIdle ==
    /\ store = NoStore
    /\ context = NoContext

\* The processes that call index_file on the project's files: the edit hook
\* (its own process) and the file watcher of the server process.
Indexers == {"edit_hook", "watcher"}

SourcePaths == {"/a.rs", "/b.rs"}

\* What extract_symbols returns for each content a file takes, in source order.
Versions ==
    [path \in SourcePaths |->
        IF path = "/a.rs" THEN {<<"f", "g">>, <<"f", "h">>} ELSE {<<"k">>}]

FirstVersion == [path \in SourcePaths |-> IF path = "/a.rs" THEN <<"f", "g">> ELSE <<"k">>]

IdleIndexer == [pc |-> "idle", file_path |-> "", extracted |-> <<>>]

\* The project as the initial index_project run left it: every file indexed once.
SymbolsIdle ==
    /\ symbols = << [file_path |-> "/a.rs", name |-> "f"],
                    [file_path |-> "/a.rs", name |-> "g"],
                    [file_path |-> "/b.rs", name |-> "k"] >>
    /\ disk = FirstVersion
    /\ indexer = [p \in Indexers |-> IdleIndexer]
    /\ index_runs = 0

NoOutput == [len |-> -1, entries |-> <<>>]

RankedIdle ==
    ranked = [list |-> <<>>, context_files |-> <<>>, budget_chars |-> 0,
              output |-> NoOutput]

NoReply == [tool |-> "none"]

FtsIdle ==
    /\ turn_text = EmptyTable
    /\ turns_fts = EmptyTable
    /\ text_seq = 0
    /\ reply = NoReply

\* A project that is not a git repository, before its first session: some
\* files on disk, no hash stored.
CatchupIdle ==
    /\ tree = [path \in {"notes.txt"} |-> 1]
    /\ file_hashes = EmptyTable
    /\ catchup_log = <<>>

\* The threads that take a Db mutex: in the server process the task poller job
\* (distill_session_llm) and the file watcher; in a PreToolUse hook process its
\* only thread (build_explore_briefing), with the Db it opened itself.
Threads == {"poller", "watcher", "pre_tool_use"}

ProcessOf(thread) == IF thread = "pre_tool_use" THEN "hook" ELSE "server"

IdleWorker == [pc |-> "idle", entries |-> <<>>]

DistillIdle ==
    /\ db_lock = [process \in {"server", "hook"} |-> "free"]
    /\ worker = [thread \in Threads |-> IdleWorker]
    /\ llm_calls = 0

IdleHandler == [pc |-> "idle", command |-> "none", session_id |-> "",
                stale |-> <<>>, distilled |-> 0]

\* No SessionEnd or PreCompact hook is running, no session has ended, and the
\* project's files are as the initial index_project run has just read them.
HandlersIdle ==
    /\ handler = IdleHandler
    /\ ended_at = {}
    /\ present = SourcePaths
    /\ mtime = [path \in SourcePaths |-> 0]
    /\ last_indexed = [path \in SourcePaths |-> 0]
    /\ now = 0

NothingRetrieved == [path |-> "none", ids |-> {}]

RetrievalIdle == retrieved = NothingRetrieved

NotStarted == [pc |-> "start", warned |-> {}, fatal |-> "none"]

StartupIdle == boot = [s \in Servers |-> NotStarted]

NoGitRun == [head |-> 0, last |-> 0, index_turn |-> "none", turn_id |-> 0]

GitIdle ==
    /\ git_head = 0
    /\ git_state = 0
    /\ git_run = NoGitRun

WatcherIdle ==
    /\ channel = <<>>
    /\ pending_files = {}
    /\ watch = [pc |-> "recv", files |-> <<>>]
    /\ batch = <<>>
    /\ owed = {}
    /\ events_sent = 0

NoCheck == [remote |-> <<>>, local |-> <<>>, checked |-> FALSE, newer |-> FALSE]

UpdateIdle == version_check = NoCheck

IdleExceptTasks == RaceIdle /\ TurnsIdle /\ KnowledgeIdle /\ RunsIdle /\
    InjectIdle /\ SymbolsIdle /\ RankedIdle /\ FtsIdle /\ CatchupIdle /\
    DistillIdle /\ HandlersIdle /\ RetrievalIdle /\ StartupIdle /\ GitIdle /\
    WatcherIdle /\ UpdateIdle
IdleExceptRace == TurnsIdle /\ KnowledgeIdle /\ RunsIdle /\ InjectIdle /\
    SymbolsIdle /\ RankedIdle /\ FtsIdle /\ CatchupIdle /\ DistillIdle /\
    HandlersIdle /\ RetrievalIdle /\ StartupIdle /\ GitIdle /\ WatcherIdle /\
    UpdateIdle
IdleExceptTurns == TasksIdle /\ RaceIdle /\ KnowledgeIdle /\ RunsIdle /\
    InjectIdle /\ SymbolsIdle /\ RankedIdle /\ FtsIdle /\ CatchupIdle /\
    DistillIdle /\ HandlersIdle /\ RetrievalIdle /\ StartupIdle /\ GitIdle /\
    WatcherIdle /\ UpdateIdle
IdleExceptKnowledge == TasksIdle /\ RaceIdle /\ TurnsIdle /\ RunsIdle /\
    InjectIdle /\ SymbolsIdle /\ RankedIdle /\ FtsIdle /\ CatchupIdle /\
    DistillIdle /\ HandlersIdle /\ RetrievalIdle /\ StartupIdle /\ GitIdle /\
    WatcherIdle /\ UpdateIdle
IdleExceptRuns == TasksIdle /\ RaceIdle /\ TurnsIdle /\ KnowledgeIdle /\
    InjectIdle /\ SymbolsIdle /\ RankedIdle /\ FtsIdle /\ CatchupIdle /\
    DistillIdle /\ HandlersIdle /\ RetrievalIdle /\ StartupIdle /\ GitIdle /\
    WatcherIdle /\ UpdateIdle
IdleExceptInject == TasksIdle /\ RaceIdle /\ TurnsIdle /\ KnowledgeIdle /\
    RunsIdle /\ SymbolsIdle /\ RankedIdle /\ FtsIdle /\ CatchupIdle /\
    DistillIdle /\ HandlersIdle /\ RetrievalIdle /\ StartupIdle /\ GitIdle /\
    WatcherIdle /\ UpdateIdle
IdleExceptSymbols == TasksIdle /\ RaceIdle /\ TurnsIdle /\ KnowledgeIdle /\
    RunsIdle /\ InjectIdle /\ RankedIdle /\ FtsIdle /\ CatchupIdle /\
    DistillIdle /\ HandlersIdle /\ RetrievalIdle /\ StartupIdle /\ GitIdle /\
    WatcherIdle /\ UpdateIdle
IdleExceptRanked == TasksIdle /\ RaceIdle /\ TurnsIdle /\ KnowledgeIdle /\
    RunsIdle /\ InjectIdle /\ SymbolsIdle /\ FtsIdle /\ CatchupIdle /\
    DistillIdle /\ HandlersIdle /\ RetrievalIdle /\ StartupIdle /\ GitIdle /\
    WatcherIdle /\ UpdateIdle
IdleExceptFts == TasksIdle /\ RaceIdle /\ TurnsIdle /\ KnowledgeIdle /\
    RunsIdle /\ InjectIdle /\ SymbolsIdle /\ RankedIdle /\ CatchupIdle /\
    DistillIdle /\ HandlersIdle /\ RetrievalIdle /\ StartupIdle /\ GitIdle /\
    WatcherIdle /\ UpdateIdle
IdleExceptCatchup == TasksIdle /\ RaceIdle /\ TurnsIdle /\ KnowledgeIdle /\
    RunsIdle /\ InjectIdle /\ SymbolsIdle /\ RankedIdle /\ FtsIdle /\
    DistillIdle /\ HandlersIdle /\ RetrievalIdle /\ StartupIdle /\ GitIdle /\
    WatcherIdle /\ UpdateIdle
IdleExceptDistill == TasksIdle /\ RaceIdle /\ TurnsIdle /\ KnowledgeIdle /\
    RunsIdle /\ InjectIdle /\ SymbolsIdle /\ RankedIdle /\ FtsIdle /\
    CatchupIdle /\ HandlersIdle /\ RetrievalIdle /\ StartupIdle /\ GitIdle /\
    WatcherIdle /\ UpdateIdle
IdleExceptHandlers == TasksIdle /\ RaceIdle /\ TurnsIdle /\ KnowledgeIdle /\
    RunsIdle /\ InjectIdle /\ SymbolsIdle /\ RankedIdle /\ FtsIdle /\
    CatchupIdle /\ DistillIdle /\ RetrievalIdle /\ StartupIdle /\ GitIdle /\
    WatcherIdle /\ UpdateIdle
IdleExceptRetrieval == TasksIdle /\ RaceIdle /\ TurnsIdle /\ KnowledgeIdle /\
    RunsIdle /\ InjectIdle /\ SymbolsIdle /\ RankedIdle /\ FtsIdle /\
    CatchupIdle /\ DistillIdle /\ HandlersIdle /\ StartupIdle /\ GitIdle /\
    WatcherIdle /\ UpdateIdle
IdleExceptStartup == TasksIdle /\ RaceIdle /\ TurnsIdle /\ KnowledgeIdle /\
    RunsIdle /\ InjectIdle /\ SymbolsIdle /\ RankedIdle /\ FtsIdle /\
    CatchupIdle /\ DistillIdle /\ HandlersIdle /\ RetrievalIdle /\ GitIdle /\
    WatcherIdle /\ UpdateIdle
IdleExceptGit == TasksIdle /\ RaceIdle /\ TurnsIdle /\ KnowledgeIdle /\
    RunsIdle /\ InjectIdle /\ SymbolsIdle /\ RankedIdle /\ FtsIdle /\
    CatchupIdle /\ DistillIdle /\ HandlersIdle /\ RetrievalIdle /\
    StartupIdle /\ WatcherIdle /\ UpdateIdle
IdleExceptWatcher == TasksIdle /\ RaceIdle /\ TurnsIdle /\ KnowledgeIdle /\
    RunsIdle /\ InjectIdle /\ SymbolsIdle /\ RankedIdle /\ FtsIdle /\
    CatchupIdle /\ DistillIdle /\ HandlersIdle /\ RetrievalIdle /\
    StartupIdle /\ GitIdle /\ UpdateIdle
IdleExceptUpdate == TasksIdle /\ RaceIdle /\ TurnsIdle /\ KnowledgeIdle /\
    RunsIdle /\ InjectIdle /\ SymbolsIdle /\ RankedIdle /\ FtsIdle /\
    CatchupIdle /\ DistillIdle /\ HandlersIdle /\ RetrievalIdle /\
    StartupIdle /\ GitIdle /\ WatcherIdle

(***************************************************************************)
(* db/schema.rs: background_tasks, and db/tasks.rs.                        *)
(***************************************************************************)
TaskTypes == {"reindex_stale", "distill_session", "shutdown"}
TaskStatus == {"pending", "running", "completed", "failed"}

TaskRow == [task_type : TaskTypes, status : TaskStatus, started_at : BOOLEAN]

PendingIds(tasks) == {i \in DOMAIN tasks : tasks[i].status = "pending"}
RunningIds(tasks) == {i \in DOMAIN tasks : tasks[i].status = "running"}

\* INSERT INTO background_tasks (task_type, ...): status defaults to 'pending',
\* started_at to NULL, id to the next AUTOINCREMENT value.
enqueue_task(tasks, seq, type) ==
    [i \in (DOMAIN tasks) \cup {seq + 1} |->
        IF i = seq + 1
        THEN [task_type |-> type, status |-> "pending", started_at |-> FALSE]
        ELSE tasks[i]]

\* A subquery that would order by id DESC.
SelectLifo(tasks) ==
    IF PendingIds(tasks) = {} THEN 0 ELSE SetMax(PendingIds(tasks))

\* The scalar subquery: SELECT id ... WHERE status = 'pending' ORDER BY id ASC LIMIT 1
\* (0 stands for the NULL of an empty result).
SelectNextPending(tasks) ==
    IF PendingIds(tasks) = {} THEN 0 ELSE SetMin(PendingIds(tasks))

\* An UPDATE that would leave the row as it is.
MarkNothing(tasks, id) == tasks

\* UPDATE ... SET status = 'running', started_at = datetime('now') WHERE id = <id>
MarkRunning(tasks, id) ==
    [i \in DOMAIN tasks |->
        IF i = id THEN [tasks[i] EXCEPT !.status = "running", !.started_at = TRUE]
        ELSE tasks[i]]

\* claim_next_task: the whole UPDATE ... RETURNING statement.  id = 0 is None.
claim_next_task(tasks) ==
    LET id == SelectNextPending(tasks)
    IN  [id |-> id, tasks |-> MarkRunning(tasks, id)]

\* A complete_task whose UPDATE would not reach the row.
KeepRunning(tasks, id) == tasks

\* UPDATE ... SET status = 'completed' WHERE id = ?1
complete_task(tasks, id) ==
    [i \in DOMAIN tasks |->
        IF i = id THEN [tasks[i] EXCEPT !.status = "completed"] ELSE tasks[i]]

\* UPDATE ... SET status = 'failed', error = ?2 WHERE id = ?1
fail_task(tasks, id) ==
    [i \in DOMAIN tasks |->
        IF i = id THEN [tasks[i] EXCEPT !.status = "failed"] ELSE tasks[i]]

\* A recovery that would change no row.
RecoverNone(tasks) == tasks

\* UPDATE ... SET status = 'pending', started_at = NULL WHERE status = 'running'
recover_stuck_tasks(tasks) ==
    [i \in DOMAIN tasks |->
        IF tasks[i].status = "running"
        THEN [tasks[i] EXCEPT !.status = "pending", !.started_at = FALSE]
        ELSE tasks[i]]

\* clear_shutdown_tasks is called by run_server but its body is not part of the
\* sources at hand: it drains the shutdown rows a previous server left unfinished.
clear_shutdown_tasks(tasks) ==
    LET keep == {i \in DOMAIN tasks :
                    ~(tasks[i].task_type = "shutdown"
                      /\ tasks[i].status \in {"pending", "running"})}
    IN  [i \in keep |-> tasks[i]]

\* The ids successive claim_next_task calls return, until it returns None.
RECURSIVE DrainOrder(_)
DrainOrder(tasks) ==
    LET r == claim_next_task(tasks)
    IN  IF r.id = 0 THEN <<>> ELSE <<r.id>> \o DrainOrder(r.tasks)

(***************************************************************************)
(* The task queue as the processes drive it.                               *)
(***************************************************************************)
InitTasks == TasksIdle /\ IdleExceptTasks

\* Any process: enqueue_task.
Enqueue(type) ==
    /\ task_seq < MaxTasks
    /\ background_tasks' = enqueue_task(background_tasks, task_seq, type)
    /\ task_seq' = task_seq + 1
    /\ UNCHANGED <<server, held, returned, claimed, exceptTasks>>

\* run_server: Db::open succeeded.
ServerOpen(s) ==
    /\ server[s] = "down"
    /\ server' = [server EXCEPT ![s] = "opened"]
    /\ UNCHANGED <<background_tasks, task_seq, held, returned, claimed, exceptTasks>>

\* run_server: db::tasks::clear_shutdown_tasks(&db)?
ClearShutdownTasks(s) ==
    /\ server[s] = "opened"
    /\ background_tasks' = clear_shutdown_tasks(background_tasks)
    /\ server' = [server EXCEPT ![s] = "cleared"]
    /\ UNCHANGED <<task_seq, held, returned, claimed, exceptTasks>>

\* run_server: db::tasks::recover_stuck_tasks(&db), then the poller is spawned.
RecoverStuckTasks(s) ==
    /\ server[s] = "cleared"
    /\ background_tasks' = recover_stuck_tasks(background_tasks)
    /\ server' = [server EXCEPT ![s] = "polling"]
    /\ UNCHANGED <<task_seq, held, returned, claimed, exceptTasks>>

\* run_task_poller: one tick's claim_next_task.
PollClaim(s) ==
    /\ server[s] = "polling"
    /\ LET r == claim_next_task(background_tasks)
       IN  /\ background_tasks' = r.tasks
           /\ IF r.id = 0
              THEN UNCHANGED <<server, held, returned, claimed>>
              ELSE /\ server' = [server EXCEPT ![s] = "executing"]
                   /\ held' = [held EXCEPT ![s] =
                                 [id |-> r.id,
                                  task_type |-> background_tasks[r.id].task_type]]
                   /\ returned' = returned \cup {r.id}
                   /\ claimed' = [claimed EXCEPT ![s] = @ \cup {r.id}]
    /\ UNCHANGED <<task_seq, exceptTasks>>

\* run_task_poller: "shutdown" => complete_task, then std::process::exit(0).
ExecShutdown(s) ==
    /\ server[s] = "executing"
    /\ held[s].task_type = "shutdown"
    /\ background_tasks' = complete_task(background_tasks, held[s].id)
    /\ server' = [server EXCEPT ![s] = "down"]
    /\ held' = [held EXCEPT ![s] = NoTask]
    /\ claimed' = [claimed EXCEPT ![s] = {}]
    /\ UNCHANGED <<task_seq, returned, exceptTasks>>

\* run_task_poller: the task's executor ends with complete_task.
ExecComplete(s) ==
    /\ server[s] = "executing"
    /\ held[s].task_type # "shutdown"
    /\ background_tasks' = complete_task(background_tasks, held[s].id)
    /\ server' = [server EXCEPT ![s] = "polling"]
    /\ held' = [held EXCEPT ![s] = NoTask]
    /\ claimed' = [claimed EXCEPT ![s] = @ \ {held[s].id}]
    /\ UNCHANGED <<task_seq, returned, exceptTasks>>

\* run_task_poller: the task's executor ends with fail_task.
ExecFail(s) ==
    /\ server[s] = "executing"
    /\ held[s].task_type # "shutdown"
    /\ background_tasks' = fail_task(background_tasks, held[s].id)
    /\ server' = [server EXCEPT ![s] = "polling"]
    /\ held' = [held EXCEPT ![s] = NoTask]
    /\ claimed' = [claimed EXCEPT ![s] = @ \ {held[s].id}]
    /\ UNCHANGED <<task_seq, returned, exceptTasks>>

\* run_task_poller: the closure given to spawn_blocking panics inside the task's
\* executor (symbols.rs slices a signature at byte 200, distill.rs truncate slices
\* at byte max: a multi-byte character there panics; no connection guard is held
\* at either place).  The JoinError is logged and the loop goes on to its next tick.
ExecPanic(s) ==
    /\ server[s] = "executing"
    /\ held[s].task_type # "shutdown"
    /\ server' = [server EXCEPT ![s] = "polling"]
    /\ held' = [held EXCEPT ![s] = NoTask]
    /\ UNCHANGED <<background_tasks, task_seq, returned, claimed, exceptTasks>>

\* The server process dies (killed, or standard input closed): rows stay as they are.
ServerCrash(s) ==
    /\ server[s] # "down"
    /\ server' = [server EXCEPT ![s] = "down"]
    /\ held' = [held EXCEPT ![s] = NoTask]
    /\ claimed' = [claimed EXCEPT ![s] = {}]
    /\ UNCHANGED <<background_tasks, task_seq, returned, exceptTasks>>

NextTasks ==
    \/ \E type \in TaskTypes : Enqueue(type)
    \/ \E s \in Servers : ServerOpen(s)
    \/ \E s \in Servers : ClearShutdownTasks(s)
    \/ \E s \in Servers : RecoverStuckTasks(s)
    \/ \E s \in Servers : PollClaim(s)
    \/ \E s \in Servers : ExecShutdown(s)
    \/ \E s \in Servers : ExecComplete(s)
    \/ \E s \in Servers : ExecFail(s)
    \/ \E s \in Servers : ExecPanic(s)
    \/ \E s \in Servers : ServerCrash(s)

SpecTasks == InitTasks /\ [][NextTasks]_vars

\* C8: when recover_stuck_tasks runs at server startup, afterwards no row is
\* running; every row that was running is pending with started_at cleared and is
\* among the rows the following claim_next_task calls return; every other row is
\* unchanged.
C8_RecoverStuck ==
    [][\A s \in Servers : RecoverStuckTasks(s) =>
          /\ DOMAIN background_tasks' = DOMAIN background_tasks
          /\ RunningIds(background_tasks') = {}
          /\ \A i \in DOMAIN background_tasks :
                IF background_tasks[i].status = "running"
                THEN /\ background_tasks'[i].status = "pending"
                     /\ ~background_tasks'[i].started_at
                     /\ background_tasks'[i].task_type = background_tasks[i].task_type
                     /\ i \in Range(DrainOrder(background_tasks'))
                ELSE background_tasks'[i] = background_tasks[i]]_vars

\* C8 witness: a server has finished its startup and a row that a poller had
\* claimed before is pending again.
C8_Witness ==
    \E s \in Servers :
        /\ server[s] = "polling"
        /\ \E i \in DOMAIN background_tasks :
              /\ i \in returned
              /\ background_tasks[i].status = "pending"
              /\ ~background_tasks[i].started_at

\* C9: the queue is FIFO.  A task is never returned by claim_next_task while an
\* older task of the table has not been returned yet; each claim returns the
\* pending row with the smallest id and makes only that row running; with no
\* pending row it returns None and changes no row.
C9_Fifo ==
    /\ [](\A a, b \in DOMAIN background_tasks :
            (a < b /\ b \in returned) => a \in returned)
    /\ [][\A s \in Servers : PollClaim(s) =>
            IF PendingIds(background_tasks) = {}
            THEN /\ background_tasks' = background_tasks
                 /\ held'[s] = NoTask
            ELSE LET m == SetMin(PendingIds(background_tasks))
                 IN  /\ held'[s].id = m
                     /\ background_tasks'[m].status = "running"
                     /\ \A i \in DOMAIN background_tasks \ {m} :
                           background_tasks'[i] = background_tasks[i]]_vars

\* C9 witness: two tasks were pending together, the older has been claimed and the
\* younger is still pending.
C9_Witness ==
    \E a, b \in DOMAIN background_tasks :
        /\ a < b
        /\ a \in returned
        /\ \E s \in Servers : held[s].id = a
        /\ background_tasks[b].status = "pending"

\* C21: when the execution of a claimed task panics, the task's row ends with
\* status failed (and the panic message as its error), and the poller keeps
\* running, so that tasks enqueued afterwards are still claimed.
C21_PanicMarksFailed ==
    [][\A s \in Servers : ExecPanic(s) =>
          /\ background_tasks'[held[s].id].status = "failed"
          /\ server'[s] = "polling"]_vars

\* The rows a server's poller claimed that are still running.
RunningClaims(s) ==
    {i \in claimed[s] \cap DOMAIN background_tasks :
        background_tasks[i].status = "running"}

\* C22: at most one task claimed by a server's poller is running at any instant:
\* the poller claims no new task while one it claimed earlier is not finalized.
C22_OneRunningPerPoller ==
    \A s \in Servers : Cardinality(RunningClaims(s)) <= 1

\* C23: when the poller claims a shutdown task, its row is completed before the
\* process exits, so the recover_stuck_tasks of the next server start finds the
\* row not running and leaves it as it is.
C23_ShutdownCompletedBeforeExit ==
    /\ [][\A s \in Servers : ExecShutdown(s) =>
            LET id == held[s].id
            IN  /\ server'[s] = "down"
                /\ id \in DOMAIN background_tasks' =>
                      /\ background_tasks'[id].status = "completed"
                      /\ recover_stuck_tasks(background_tasks')[id]
                            = background_tasks'[id]]_vars
    /\ [][\A s \in Servers : RecoverStuckTasks(s) =>
            \A i \in DOMAIN background_tasks :
                (/\ background_tasks[i].task_type = "shutdown"
                 /\ background_tasks[i].status = "completed")
                    => background_tasks'[i] = background_tasks[i]]_vars

\* C23 witness: a poller claimed the only task, a shutdown task, the process
\* exited, and a server has gone through its startup again.
C23_Witness ==
    /\ DOMAIN background_tasks = {1}
    /\ background_tasks[1].task_type = "shutdown"
    /\ background_tasks[1].status = "completed"
    /\ 1 \in returned
    /\ \E s \in Servers : server[s] = "polling"

(***************************************************************************)
(* N pollers, each calling claim_next_task once, race on M pending tasks.  *)
(***************************************************************************)
TablesOfSize(n) == [1..n -> [task_type : {"reindex_stale"}, status : TaskStatus,
                             started_at : {FALSE}]]

InitRace ==
    /\ \E n \in 0..MaxRaceTasks : background_tasks \in TablesOfSize(n)
    /\ task_seq = Cardinality(DOMAIN background_tasks)
    /\ server = [s \in Servers |-> "down"]
    /\ held = [s \in Servers |-> NoTask]
    /\ returned = {}
    /\ claimed = [s \in Servers |-> {}]
    /\ race = [p \in Pollers |-> -1]
    /\ race_pending = PendingIds(background_tasks)
    /\ IdleExceptRace

RaceClaim(p) ==
    /\ race[p] = -1
    /\ LET r == claim_next_task(background_tasks)
       IN  /\ background_tasks' = r.tasks
           /\ race' = [race EXCEPT ![p] = r.id]
    /\ UNCHANGED <<task_seq, server, held, returned, claimed, race_pending, exceptRace>>

NextRace == \E p \in Pollers : RaceClaim(p)

SpecClaimRace == InitRace /\ [][NextRace]_vars

\* C1: when N pollers each call claim_next_task on a queue holding M pending
\* tasks, only tasks that were pending are returned, no task is returned to two
\* pollers, and once all N calls have returned exactly min(N, M) of them returned
\* a task.
C1_AtomicClaim ==
    /\ \A p \in Pollers : race[p] > 0 => race[p] \in race_pending
    /\ \A p, q \in Pollers : (p # q /\ race[p] > 0) => race[p] # race[q]
    /\ (\A p \in Pollers : race[p] # -1) =>
          Cardinality({p \in Pollers : race[p] > 0})
              = Min(NumPollers, Cardinality(race_pending))

\* C1 witness: every poller has returned, at least two of them with a task and at
\* least one with None.
C1_Witness ==
    /\ \A p \in Pollers : race[p] # -1
    /\ Cardinality({p \in Pollers : race[p] > 0}) >= 2
    /\ \E p \in Pollers : race[p] = 0

(***************************************************************************)
(* indexer/conversation.rs: ensure_session, next_turn_number, index_turn,  *)
(* as the hook handlers call them.  Each db.conn() scope is one step: the  *)
(* guard of next_turn_number is dropped when it returns, and the INSERTs   *)
(* of index_turn run in autocommit mode, outside any transaction.          *)
(***************************************************************************)
SessionIds == {"S", "T"}

\* The (turn_type, files) a handler passes to index_turn: hooks/prompt.rs,
\* hooks/tool_use.rs (edit), indexer/git.rs (catch-up over several files).
IndexCalls ==
    { [turn_type |-> "request", files |-> <<>>],
      [turn_type |-> "code_edit", files |-> << <<"/a.rs", "edit">> >>],
      [turn_type |-> "git_catchup",
       files |-> << <<"/a.rs", "git_change">>, <<"/b.rs", "git_change">> >>] }

TurnsOf(rows, sid) == {i \in DOMAIN rows : rows[i].session_id = sid}

\* A numbering that would ignore the WHERE clause.
NextTurnNumberAnySession(rows, sid) ==
    IF rows = <<>> THEN 1
    ELSE SetMax({rows[i].turn_number : i \in DOMAIN rows}) + 1

\* SELECT MAX(turn_number) FROM turns WHERE session_id = ?1, then unwrap_or(0) + 1
next_turn_number(rows, sid) ==
    IF TurnsOf(rows, sid) = {} THEN 1
    ELSE SetMax({rows[i].turn_number : i \in TurnsOf(rows, sid)}) + 1

\* INSERT OR IGNORE INTO turn_files: PRIMARY KEY (turn_id, file_path)
insert_turn_file(rows, tid, path, action) ==
    IF \E r \in rows : r.turn_id = tid /\ r.file_path = path
    THEN rows
    ELSE rows \cup {[turn_id |-> tid, file_path |-> path, action |-> action]}

HooksIdle == \A h \in Hooks : hook[h].pc = "idle"

\* A handler starts: ensure_session (INSERT OR IGNORE INTO sessions), with the
\* arguments of its index_turn call fixed.
HookStart(h, sid, call) ==
    /\ hook[h].pc = "idle"
    /\ Len(turns) + Cardinality({g \in Hooks : hook[g].pc \in {"ensured", "numbered"}})
          < MaxTurns
    /\ sessions' = sessions \cup {sid}
    /\ hook' = [hook EXCEPT ![h] =
                  [IdleHook EXCEPT !.pc = "ensured", !.session_id = sid,
                                   !.turn_type = call.turn_type, !.files = call.files]]
    /\ UNCHANGED <<turns, turn_files, exceptTurns>>

\* The same, for calls executed one at a time: no other call is in progress.
HookStartAlone(h, sid, call) ==
    /\ HooksIdle
    /\ HookStart(h, sid, call)

\* index_turn: let turn_number = next_turn_number(db, session_id)?
NextTurnNumber(h) ==
    /\ hook[h].pc = "ensured"
    /\ hook' = [hook EXCEPT ![h].pc = "numbered",
                            ![h].turn_number = next_turn_number(turns, hook[h].session_id)]
    /\ UNCHANGED <<sessions, turns, turn_files, exceptTurns>>

\* index_turn: INSERT INTO turns (...), then conn.last_insert_rowid(); with no
\* file to record index_turn returns.
InsertTurn(h) ==
    /\ hook[h].pc = "numbered"
    /\ turns' = Append(turns, [session_id |-> hook[h].session_id,
                               turn_number |-> hook[h].turn_number,
                               turn_type |-> hook[h].turn_type])
    /\ hook' = [hook EXCEPT ![h] =
                  IF hook[h].files = <<>> THEN IdleHook
                  ELSE [hook[h] EXCEPT !.pc = "inserted", !.turn_id = Len(turns) + 1]]
    /\ UNCHANGED <<sessions, turn_files, exceptTurns>>

\* index_turn: one round of the loop over files; after the last one it returns.
InsertTurnFile(h) ==
    /\ hook[h].pc = "inserted"
    /\ LET f == Head(hook[h].files)
       IN  turn_files' = insert_turn_file(turn_files, hook[h].turn_id, f[1], f[2])
    /\ hook' = [hook EXCEPT ![h] =
                  IF Tail(hook[h].files) = <<>> THEN IdleHook
                  ELSE [hook[h] EXCEPT !.files = Tail(hook[h].files)]]
    /\ UNCHANGED <<sessions, turns, exceptTurns>>

\* The process dies inside its handler (kill, panic, an Err returned by `?`):
\* no transaction is open, so every statement already run stays committed.
HookKilled(h) ==
    /\ hook[h].pc # "idle"
    /\ hook' = [hook EXCEPT ![h] = IdleHook]
    /\ UNCHANGED <<sessions, turns, turn_files, exceptTurns>>

InitTurns == TurnsIdle /\ IdleExceptTurns

NextTurns ==
    \/ \E h \in Hooks, sid \in SessionIds, call \in IndexCalls : HookStart(h, sid, call)
    \/ \E h \in Hooks : NextTurnNumber(h)
    \/ \E h \in Hooks : InsertTurn(h)
    \/ \E h \in Hooks : InsertTurnFile(h)
    \/ \E h \in Hooks : HookKilled(h)

NextTurnsAlone ==
    \/ \E h \in Hooks, sid \in SessionIds, call \in IndexCalls :
          HookStartAlone(h, sid, call)
    \/ \E h \in Hooks : NextTurnNumber(h)
    \/ \E h \in Hooks : InsertTurn(h)
    \/ \E h \in Hooks : InsertTurnFile(h)
    \/ \E h \in Hooks : HookKilled(h)

\* Hook processes run concurrently.
SpecTurns == InitTurns /\ [][NextTurns]_vars

\* index_turn calls run one at a time.
SpecTurnsAlone == InitTurns /\ [][NextTurnsAlone]_vars

\* C2: for every interleaving of concurrent index_turn calls, no two turns of one
\* session have the same turn_number, and within a session turn_number order
\* agrees with primary-key order.
C2_UniqueTurnNumber ==
    \A i, j \in DOMAIN turns :
        (i < j /\ turns[i].session_id = turns[j].session_id)
            => turns[i].turn_number < turns[j].turn_number

\* C3: after index_turn calls executed one at a time, the turn numbers of every
\* session are exactly 1..N for its N turns, a turn inserted later has a larger
\* turn_number than every earlier turn of its session, and the turns of other
\* sessions have no part in it.
C3_DenseTurnNumbers ==
    \A sid \in SessionIds :
        /\ {turns[i].turn_number : i \in TurnsOf(turns, sid)}
              = 1..Cardinality(TurnsOf(turns, sid))
        /\ \A i, j \in TurnsOf(turns, sid) :
              i < j => turns[i].turn_number < turns[j].turn_number

\* C3 witness: a session received a turn, then another session did, then the
\* first session received its second turn.
C3_Witness ==
    /\ HooksIdle
    /\ \E i, j, k \in DOMAIN turns :
          /\ i < j /\ j < k
          /\ turns[i].session_id = turns[k].session_id
          /\ turns[j].session_id # turns[i].session_id
          /\ turns[i].turn_number = 1
          /\ turns[j].turn_number = 1
          /\ turns[k].turn_number = 2

\* The files argument index_turn was called with, for a turn of the given type.
FilesOf(turn_type) ==
    (CHOOSE call \in IndexCalls : call.turn_type = turn_type).files

\* C11: index_turn is atomic: in every state another process can observe, and
\* after a crash or error at any point inside index_turn, a turn row is present
\* together with all of its file references or not present at all.
C11_IndexTurnAtomic ==
    \A i \in DOMAIN turns :
        \A k \in DOMAIN FilesOf(turns[i].turn_type) :
            \E r \in turn_files :
                /\ r.turn_id = i
                /\ r.file_path = FilesOf(turns[i].turn_type)[k][1]

(***************************************************************************)
(* indexer/distill.rs: upsert_knowledge and contents_agree.  The function  *)
(* holds db.conn() from its first to its last statement and calls are      *)
(* taken one at a time, so a call is one step.  A content string is the    *)
(* set of its lower-cased, whitespace-separated words.  Confidence is      *)
(* counted in thousandths (0.7 is 700) and the arithmetic is exact.        *)
(***************************************************************************)
KnowledgeKeys ==
    { [category |-> "convention", subject |-> "database"],
      [category |-> "convention", subject |-> "build tool"] }

Contents ==
    { {"uses", "sqlite", "local", "storage"},
      {"sqlite", "with", "wal", "cache"},
      {"postgres", "replica", "over", "sqlite"},
      {"use", "it"} }

\* The confidences callers pass: 0.7 (a heuristic), 0.95 (an LLM entry).
Confidences == {700, 950}

ConfidenceStep == 100
ConfidenceCap == 1000

\* contents_agree: the words it ignores.
common_words ==
    {"the", "and", "for", "with", "this", "that", "from", "have", "will",
     "use", "uses", "used", "using", "into", "than", "over", "also"}

\* Byte length of the words of the model's contents.
WordLen(w) ==
    CASE w \in {"it"} -> 2
      [] w \in {"wal", "use"} -> 3
      [] w \in {"uses", "with", "over"} -> 4
      [] w \in {"local", "cache"} -> 5
      [] w \in {"sqlite"} -> 6
      [] w \in {"storage", "replica"} -> 7
      [] w \in {"postgres"} -> 8

significant_words(content) ==
    {w \in content : WordLen(w) > 3 /\ w \notin common_words}

\* overlap as f64 / total as f64 > 0.4
contents_agree(a, b) ==
    LET a_words == significant_words(a)
        b_words == significant_words(b)
        overlap == Cardinality(a_words \cap b_words)
        total == Min(Cardinality(a_words), Cardinality(b_words))
    IN  IF a_words = {} \/ b_words = {} THEN TRUE
        ELSE 5 * overlap > 2 * total

ActiveIds(rows, category, subject) ==
    {i \in DOMAIN rows : /\ rows[i].category = category
                         /\ rows[i].subject = subject
                         /\ rows[i].superseded_by = 0}

\* A lookup that would lack the superseded_by IS NULL condition and take the
\* oldest row of the key.
SelectOldestOfKey(rows, category, subject) ==
    LET ids == {i \in DOMAIN rows : /\ rows[i].category = category
                                    /\ rows[i].subject = subject}
    IN  IF ids = {} THEN 0 ELSE SetMin(ids)

\* SELECT id, confidence, content ... WHERE subject = ?1 AND category = ?2 AND
\* superseded_by IS NULL ORDER BY created_at DESC LIMIT 1  (0: no row)
select_existing(rows, category, subject) ==
    IF ActiveIds(rows, category, subject) = {} THEN 0
    ELSE SetMax(ActiveIds(rows, category, subject))

\* A boost that would lack the cap.
BoostUncapped(c) == c + ConfidenceStep

\* (existing_confidence + 0.1).min(1.0)
boost_confidence(c) == Min(c + ConfidenceStep, ConfidenceCap)

\* A supersession that would leave the old confidence alone.
KeepConfidence(c) == c

\* confidence * 0.5
halve_confidence(c) == c \div 2

new_entry(category, subject, content, confidence) ==
    [category |-> category, subject |-> subject, content |-> content,
     confidence |-> confidence, last_confirmed |-> FALSE, superseded_by |-> 0]

\* An upsert that would insert without looking for the active entry.
InsertOnly(rows, category, subject, content, confidence) ==
    Append(rows, new_entry(category, subject, content, confidence))

upsert_knowledge(rows, category, subject, content, confidence) ==
    LET existing_id == select_existing(rows, category, subject)
    IN  IF existing_id = 0
        THEN Append(rows, new_entry(category, subject, content, confidence))
        ELSE IF contents_agree(rows[existing_id].content, content)
        THEN [rows EXCEPT ![existing_id].confidence = boost_confidence(@),
                          ![existing_id].last_confirmed = TRUE]
        ELSE Append([rows EXCEPT ![existing_id].confidence = halve_confidence(@),
                                 ![existing_id].superseded_by = Len(rows) + 1],
                    new_entry(category, subject, content, confidence))

InitKnowledge == KnowledgeIdle /\ IdleExceptKnowledge

\* distill: one upsert_knowledge call.
Upsert(key, content, confidence) ==
    /\ LET rows == upsert_knowledge(knowledge, key.category, key.subject,
                                    content, confidence)
       IN  /\ Len(rows) <= MaxKnowledge
           /\ knowledge' = rows
    /\ UNCHANGED exceptKnowledge

NextKnowledge ==
    \E key \in KnowledgeKeys, content \in Contents, confidence \in Confidences :
        Upsert(key, content, confidence)

SpecKnowledge == InitKnowledge /\ [][NextKnowledge]_vars

\* The contents of the model that agree.  "sqlite local storage" and "postgres
\* replica sqlite" share one significant word of three (33%): they disagree.
\* "sqlite cache" shares one of its two with either (50%); "use it" has no
\* significant word and agrees with everything.
Agreeing(a, b) ==
    \/ a = b
    \/ "it" \in a \/ "it" \in b
    \/ "cache" \in a \/ "cache" \in b

\* C6: an upsert_knowledge call whose (category, subject) has an active entry with
\* agreeing content inserts no row; that entry stays the only active entry of the
\* key, its confidence becomes min(old + 0.1, 1.0) and so never exceeds 1.0, its
\* last_confirmed is set, and no other row changes.
C6_AgreeConfirms ==
    [][\A key \in KnowledgeKeys, content \in Contents, confidence \in Confidences :
          \A e \in ActiveIds(knowledge, key.category, key.subject) :
             (Upsert(key, content, confidence) /\ Agreeing(knowledge[e].content, content))
                => /\ Len(knowledge') = Len(knowledge)
                   /\ ActiveIds(knowledge', key.category, key.subject) = {e}
                   /\ knowledge'[e].confidence =
                         IF knowledge[e].confidence + 100 <= 1000
                         THEN knowledge[e].confidence + 100 ELSE 1000
                   /\ knowledge'[e].confidence <= 1000
                   /\ knowledge'[e].last_confirmed
                   /\ knowledge'[e].content = knowledge[e].content
                   /\ \A i \in DOMAIN knowledge \ {e} : knowledge'[i] = knowledge[i]]_vars

\* C6 witness: an entry stored with confidence 0.7 was confirmed once (0.8), and an
\* entry of another key was confirmed up to the cap of 1.0.
C6_Witness ==
    \E e, f \in DOMAIN knowledge :
        /\ e # f
        /\ knowledge[e].last_confirmed /\ knowledge[e].confidence = 800
        /\ knowledge[e].superseded_by = 0
        /\ knowledge[f].last_confirmed /\ knowledge[f].confidence = 1000
        /\ knowledge[f].superseded_by = 0

\* C7: an upsert_knowledge call whose (category, subject) has an active entry with
\* disagreeing content leaves exactly one active entry for the key, the new row,
\* stored with the given content and confidence; the old entry has its confidence
\* halved and its superseded_by equal to the new row's id; no other row changes.
C7_DisagreeSupersedes ==
    [][\A key \in KnowledgeKeys, content \in Contents, confidence \in Confidences :
          \A e \in ActiveIds(knowledge, key.category, key.subject) :
             (Upsert(key, content, confidence) /\ ~Agreeing(knowledge[e].content, content))
                => LET n == Len(knowledge) + 1
                   IN  /\ Len(knowledge') = n
                       /\ ActiveIds(knowledge', key.category, key.subject) = {n}
                       /\ knowledge'[n].content = content
                       /\ knowledge'[n].confidence = confidence
                       /\ 2 * knowledge'[e].confidence = knowledge[e].confidence
                       /\ knowledge'[e].superseded_by = n
                       /\ \A i \in DOMAIN knowledge \ {e} :
                             knowledge'[i] = knowledge[i]]_vars

\* C7 witness: an entry stored with confidence 0.7 was superseded: it now has
\* confidence 0.35 and points to the active entry that replaced it.
C7_Witness ==
    \E e, n \in DOMAIN knowledge :
        /\ knowledge[e].confidence = 350
        /\ knowledge[e].superseded_by = n
        /\ knowledge[n].superseded_by = 0
        /\ knowledge[n].category = knowledge[e].category
        /\ knowledge[n].subject = knowledge[e].subject
        /\ ActiveIds(knowledge, knowledge[e].category, knowledge[e].subject) = {n}

(***************************************************************************)
(* main.rs: the hook commands.  Each is run_hook around a closure that     *)
(* reads the input record and calls the handler; main returns run_hook's   *)
(* result, and the process exit code follows from it.                      *)
(***************************************************************************)
HookCommands ==
    {"index-prompt", "index-edit", "index-read", "index-bash",
     "pre-compact", "pre-tool-use", "session-start", "session-end"}

\* How the closure ends: it returns Ok(()), it returns an error (reading standard
\* input, parsing the input record, Db::open, a statement of the handler), or it
\* panics with a String, a &str or another payload.
ErrorOutcomes == {"err_read_input", "err_parse_input", "err_db_open", "err_statement"}
PanicOutcomes == {"panic_string", "panic_str", "panic_other"}
HandlerOutcomes == {"ok"} \cup ErrorOutcomes \cup PanicOutcomes

\* The handlers that take Db::conn while they hold it (hooks/compact.rs
\* generate_checkpoint_summary calling index_turn, inject/mod.rs
\* build_startup_context and build_compact_context calling plans::active_plan):
\* the second lock never returns; it panics or blocks forever, whichever the
\* platform's Mutex does.
RelockingCommands == {"pre-compact", "session-start"}

OutcomesOf(command) ==
    HandlerOutcomes \cup (IF command \in RelockingCommands THEN {"blocked"} ELSE {})

\* A run_hook that would hand the closure's error on to main.
RunHookPropagate(flag, outcome) ==
    IF flag THEN [result |-> "Ok", log |-> "none"]
    ELSE IF outcome = "ok" THEN [result |-> "Ok", log |-> "none"]
    ELSE IF outcome \in ErrorOutcomes THEN [result |-> "Err", log |-> "none"]
    ELSE [result |-> "Ok", log |-> "Hook panicked: unknown panic"]

\* run_hook, given is_disabled() and how the closure ends.
run_hook(flag, outcome) ==
    IF flag THEN [result |-> "Ok", log |-> "none"]
    ELSE CASE outcome = "ok" -> [result |-> "Ok", log |-> "none"]
           [] outcome \in ErrorOutcomes -> [result |-> "Ok", log |-> "Hook error"]
           [] outcome \in {"panic_string", "panic_str"} ->
                 [result |-> "Ok", log |-> "Hook panicked: message"]
           [] outcome = "panic_other" ->
                 [result |-> "Ok", log |-> "Hook panicked: unknown panic"]

\* fn main() -> Result<()>: Ok(()) exits with 0, an error with 1.
exit_code(result) == IF result = "Ok" THEN 0 ELSE 1

InitRuns == RunsIdle /\ IdleExceptRuns

\* One hook process from start to exit.  A closure that blocks never reaches the
\* end of run_hook: the process has not exited.
RunHook(command, outcome) ==
    /\ Len(hook_runs) < MaxHookRuns
    /\ hook_runs' = Append(hook_runs,
          IF ~disabled /\ outcome = "blocked"
          THEN [command |-> command, called |-> TRUE, outcome |-> outcome,
                exited |-> FALSE, exit_code |-> 0, log |-> "none"]
          ELSE LET r == run_hook(disabled, outcome)
               IN  [command |-> command, called |-> ~disabled,
                    outcome |-> IF disabled THEN "none" ELSE outcome,
                    exited |-> TRUE, exit_code |-> exit_code(r.result),
                    log |-> r.log])
    /\ UNCHANGED <<disabled, exceptRuns>>

\* run_disable: writes the flag file.
RunDisable ==
    /\ disabled' = TRUE
    /\ UNCHANGED <<hook_runs, exceptRuns>>

\* run_enable: removes the flag file if it exists.
RunEnable ==
    /\ disabled' = FALSE
    /\ UNCHANGED <<hook_runs, exceptRuns>>

NextRuns ==
    \/ \E command \in HookCommands : \E outcome \in OutcomesOf(command) :
          RunHook(command, outcome)
    \/ RunDisable
    \/ RunEnable

SpecRuns == InitRuns /\ [][NextRuns]_vars

\* C10: every hook process that ends, ends with exit code 0, whatever its handler
\* did: when the closure returned an error (reading or parsing the input record,
\* opening the store, a statement) or panicked, the failure was logged and nothing
\* else.
C10_HookExitsZero ==
    \A i \in DOMAIN hook_runs :
        hook_runs[i].exited =>
            /\ hook_runs[i].exit_code = 0
            /\ hook_runs[i].outcome \in ErrorOutcomes \cup PanicOutcomes
                  => hook_runs[i].log # "none"

\* C10 witness: a hook whose handler failed to open the store and a hook whose
\* handler panicked have both exited.
C10_Witness ==
    \E i, j \in DOMAIN hook_runs :
        /\ hook_runs[i].called /\ hook_runs[i].exited
        /\ hook_runs[i].outcome = "err_db_open"
        /\ hook_runs[j].called /\ hook_runs[j].exited
        /\ hook_runs[j].outcome = "panic_str"

(***************************************************************************)
(* inject/mod.rs and inject/ranking.rs: the context a SessionStart hook    *)
(* builds.  A string is its byte length (ASCII text), so a section is      *)
(* empty when its length is 0; the store is what the queries of            *)
(* db/search.rs return.  No row of table plans exists (create_tables does  *)
(* not create it), so plans::active_plan yields no plan.                   *)
(***************************************************************************)
STARTUP_BUDGET == 8000
COMPACT_BUDGET == 16000
HEADER == 999

StrLen(s) ==
    CASE s \in {"src", "Cmd"} -> 3
      [] s \in {"impl", "User", "Edit", "Read", "Plan"} -> 4
      [] s \in {"Error"} -> 5
      [] s \in {"struct", "src/db"} -> 6
      [] s \in {"pattern", "bug_fix"} -> 7
      [] s \in {"function", "decision", "Decision"} -> 8
      [] s \in {"preference", "convention", "Checkpoint"} -> 10
      [] s \in {"/p/src/a.rs", "/p/src/b.rs", "git_catchup"} -> 11
      [] s \in {"architecture", "/p/README.md", "file_catchup"} -> 12

\* The length of an integer printed with {}.
Digits(n) ==
    IF n < 10 THEN 1 ELSE IF n < 100 THEN 2 ELSE IF n < 1000 THEN 3
    ELSE IF n < 10000 THEN 4 ELSE 5

RECURSIVE SumSeq(_)
SumSeq(lens) == IF lens = <<>> THEN 0 ELSE Head(lens) + SumSeq(Tail(lens))

\* parts.join(sep)
JoinLen(lens, sep) ==
    IF lens = <<>> THEN 0 ELSE SumSeq(lens) + sep * (Len(lens) - 1)

\* truncate(s, max): s, or its first max bytes followed by "..."
truncate(s, max) == IF s <= max THEN s ELSE max + 3

\* format_symbol(name, kind)
format_symbol(name, kind) ==
    CASE kind = "struct" -> 7 + name
      [] kind = "enum" -> 5 + name
      [] kind = "trait" -> 6 + name
      [] kind = "function" -> 5 + name
      [] kind = "const" -> 6 + name
      [] kind = "impl" -> 5 + name
      [] kind = "type" -> 5 + name
      [] OTHER -> name

\* format_codebase_map: one line of the loop over the files.
map_line(entry) ==
    entry.file_path + 3
        + JoinLen([i \in DOMAIN entry.symbols |->
                      format_symbol(entry.symbols[i].name, entry.symbols[i].kind)], 2)
        + (IF entry.truncated THEN 5 ELSE 0) + 1

\* format_codebase_map: the loop over the files, left at the first line that does
\* not fit.  Yields the section and the number of files shown.
RECURSIVE MapLines(_, _, _, _)
MapLines(section, files_shown, entries, budget) ==
    IF entries = <<>> THEN [section |-> section, files_shown |-> files_shown]
    ELSE IF section + map_line(Head(entries)) > budget
    THEN [section |-> section, files_shown |-> files_shown]
    ELSE MapLines(section + map_line(Head(entries)), files_shown + 1,
                  Tail(entries), budget)

Take(s, n) == SubSeq(s, 1, Min(n, Len(s)))

format_codebase_map(structure, map, budget) ==
    IF structure.total_symbols = 0 THEN 0
    ELSE LET kinds == Take(structure.symbol_kinds, 6)
             dirs == Take(structure.directories, 8)
             kinds_str == [i \in DOMAIN kinds |->
                              Digits(kinds[i].count) + 1 + StrLen(kinds[i].kind)]
             dirs_str == [i \in DOMAIN dirs |->
                             StrLen(dirs[i].dir) + 3 + Digits(dirs[i].count)]
             head == 46 + Digits(structure.total_symbols) + Digits(structure.total_files)
                        + 10 + JoinLen(kinds_str, 2)
                        + (IF dirs = <<>> THEN 0 ELSE 14 + JoinLen(dirs_str, 2))
             lines == MapLines(head + 1, 0, map, budget)
             remaining == Len(map) - lines.files_shown
         IN  IF map = <<>> THEN head
             ELSE lines.section
                    + (IF remaining > 0 THEN 19 + Digits(remaining) ELSE 0)

\* build_startup_context: one entry of "## Recent Sessions".  NoText is a NULL
\* column; timestamps are the 19 bytes of datetime('now').
NoText == -1

session_entry(s) ==
    26 + Min(8, s.id) + 19
       + (IF s.ended THEN 19 ELSE 13)
       + (IF s.summary = NoText THEN 12 ELSE truncate(s.summary, 200))

RECURSIVE SessionEntries(_, _, _)
SessionEntries(section, entries, limit) ==
    IF entries = <<>> THEN section
    ELSE IF section + session_entry(Head(entries)) > limit THEN section
    ELSE SessionEntries(section + session_entry(Head(entries)), Tail(entries), limit)

\* build_startup_context: the categories of "## Project Knowledge", in order.
knowledge_categories ==
    <<"decision", "preference", "convention", "pattern", "architecture", "bug_fix">>

\* {:.0} of confidence * 100.0, confidence in thousandths and above 0.5
PercentDigits(confidence) == IF confidence >= 995 THEN 3 ELSE 2

knowledge_entry(e) ==
    13 + e.subject + PercentDigits(e.confidence) + truncate(e.content, 150)

RECURSIVE KnowledgeEntries(_, _, _)
KnowledgeEntries(section, entries, budget) ==
    IF entries = <<>> THEN section
    ELSE IF section + knowledge_entry(Head(entries)) > budget THEN section
    ELSE KnowledgeEntries(section + knowledge_entry(Head(entries)), Tail(entries), budget)

RECURSIVE KnowledgeCategories(_, _, _, _)
KnowledgeCategories(section, categories, entries, budget) ==
    IF categories = <<>> THEN section
    ELSE LET category == Head(categories)
         IN  KnowledgeCategories(
                 IF entries[category] = <<>> THEN section
                 ELSE KnowledgeEntries(section + 5 + StrLen(category),
                                       entries[category], budget),
                 Tail(categories), entries, budget)

NonEmpty(section) == IF section = 0 THEN <<>> ELSE <<section>>

build_startup_context(st) ==
    LET budget0 == STARTUP_BUDGET - HEADER
        map_section == format_codebase_map(st.structure, st.map, budget0 \div 2)
        budget1 == SatSub(budget0, map_section)
        sessions_section ==
            IF st.sessions = <<>> THEN 0
            ELSE SessionEntries(19, st.sessions, budget1 \div 2)
        budget2 == SatSub(budget1, sessions_section)
        catchup_section ==
            IF st.catchup = NoText THEN 0 ELSE 23 + truncate(st.catchup, 800)
        budget3 == SatSub(budget2, catchup_section)
        knowledge_section ==
            KnowledgeCategories(0, knowledge_categories, st.knowledge, budget3)
        parts == <<HEADER>> \o NonEmpty(map_section) \o NonEmpty(sessions_section)
                    \o NonEmpty(catchup_section)
                    \o (IF knowledge_section = 0 THEN <<>>
                        ELSE <<21 + knowledge_section>>)
    IN  JoinLen(parts, 1)

(***************************************************************************)
(* inject/ranking.rs.  Scores are kept exact: type_weight in tenths,       *)
(* recency_boost in tenths, file_affinity in halves, the content bonus in  *)
(* hundredths.                                                             *)
(***************************************************************************)
type_weight(turn_type) ==
    CASE turn_type = "decision" -> 15
      [] turn_type = "checkpoint" -> 14
      [] turn_type = "request" -> 13
      [] turn_type = "code_edit" -> 12
      [] turn_type \in {"explanation", "error", "plan"} -> 10
      [] turn_type = "file_read" -> 5
      [] turn_type = "bash_cmd" -> 3
      [] OTHER -> 5

\* exp(-age_hours / 24).max(0.1): 1.0 for a turn of this minute, 0.1 from 56 hours on.
recency_boost(age) == IF age = "now" THEN 10 ELSE 1

file_affinity(files, context_files) ==
    IF context_files = <<>> \/ files = <<>> THEN 2
    ELSE 2 + Cardinality({i \in DOMAIN files : files[i] \in Range(context_files)})

score_turn(turn, context_files) ==
    type_weight(turn.turn_type) * recency_boost(turn.age)
        * file_affinity(turn.files, context_files)
        * (IF turn.content > 500 THEN 121 ELSE IF turn.content > 100 THEN 110 ELSE 100)

type_label(turn_type) ==
    CASE turn_type = "request" -> StrLen("User")
      [] turn_type = "code_edit" -> StrLen("Edit")
      [] turn_type = "file_read" -> StrLen("Read")
      [] turn_type = "bash_cmd" -> StrLen("Cmd")
      [] turn_type = "decision" -> StrLen("Decision")
      [] turn_type = "checkpoint" -> StrLen("Checkpoint")
      [] turn_type = "plan" -> StrLen("Plan")
      [] turn_type = "error" -> StrLen("Error")
      [] OTHER -> StrLen(turn_type)

format_turn_for_injection(turn) ==
    9 + type_label(turn.turn_type)
      + (IF turn.files = <<>> THEN 0
         ELSE 3 + JoinLen([i \in DOMAIN turn.files |-> StrLen(turn.files[i])], 2))
      + truncate(turn.content, 800)

\* scored.sort_by(score descending): a stable sort.
InsertByScore(sorted, st) ==
    LET k == Cardinality({i \in DOMAIN sorted : sorted[i].score >= st.score})
    IN  SubSeq(sorted, 1, k) \o <<st>> \o SubSeq(sorted, k + 1, Len(sorted))

RECURSIVE SortByScore(_, _)
SortByScore(sorted, rest) ==
    IF rest = <<>> THEN sorted
    ELSE SortByScore(InsertByScore(sorted, Head(rest)), Tail(rest))

\* selected.sort_by_key(turn_number): a stable sort.
InsertByTurnNumber(sorted, st) ==
    LET k == Cardinality({i \in DOMAIN sorted :
                             sorted[i].turn.turn_number <= st.turn.turn_number})
    IN  SubSeq(sorted, 1, k) \o <<st>> \o SubSeq(sorted, k + 1, Len(sorted))

\* A re-ordering that would leave the selection in score order.
KeepScoreOrder(sorted, rest) == sorted \o rest

RECURSIVE SortByTurnNumber(_, _)
SortByTurnNumber(sorted, rest) ==
    IF rest = <<>> THEN sorted
    ELSE SortByTurnNumber(InsertByTurnNumber(sorted, Head(rest)), Tail(rest))

\* A selection loop that would take the entry to truncate from 100 bytes on.
RECURSIVE SelectFrom100(_, _, _, _)
SelectFrom100(selected, used_chars, scored, budget_chars) ==
    IF scored = <<>> THEN selected
    ELSE LET entry_size == format_turn_for_injection(Head(scored).turn)
         IN  IF used_chars + entry_size > budget_chars
             THEN IF SatSub(budget_chars, used_chars) >= 100
                  THEN Append(selected, Head(scored))
                  ELSE selected
             ELSE SelectFrom100(Append(selected, Head(scored)), used_chars + entry_size,
                                Tail(scored), budget_chars)

\* ranked_select: the loop that selects turns within the budget.
RECURSIVE SelectWithin(_, _, _, _)
SelectWithin(selected, used_chars, scored, budget_chars) ==
    IF scored = <<>> THEN selected
    ELSE LET entry_size == format_turn_for_injection(Head(scored).turn)
         IN  IF used_chars + entry_size > budget_chars
             THEN IF SatSub(budget_chars, used_chars) > 100
                  THEN Append(selected, Head(scored))
                  ELSE selected
             ELSE SelectWithin(Append(selected, Head(scored)), used_chars + entry_size,
                               Tail(scored), budget_chars)

\* ranked_select: the loop that formats the output.
RECURSIVE EmitSelected(_, _, _)
EmitSelected(output, selected, budget_chars) ==
    IF selected = <<>> THEN output
    ELSE LET formatted == format_turn_for_injection(Head(selected).turn)
             remaining == SatSub(budget_chars, output)
         IN  IF Len(selected) = 1 /\ output + formatted > budget_chars
             THEN IF remaining > 50 THEN output + Min(remaining, formatted) ELSE output
             ELSE EmitSelected(output + formatted, Tail(selected), budget_chars)

ranked_select(list, context_files, budget_chars) ==
    LET scored == SortByScore(<<>>,
                      [i \in DOMAIN list |->
                          [turn |-> list[i],
                           score |-> score_turn(list[i], context_files)]])
        selected == SortByTurnNumber(<<>>, SelectWithin(<<>>, 0, scored, budget_chars))
    IN  EmitSelected(0, selected, budget_chars)

(***************************************************************************)
(* inject/mod.rs: build_compact_context.                                   *)
(***************************************************************************)
RECURSIVE FilterTurns(_, _)
FilterTurns(list, types) ==
    IF list = <<>> THEN <<>>
    ELSE (IF Head(list).turn_type \in types THEN <<Head(list)>> ELSE <<>>)
            \o FilterTurns(Tail(list), types)

\* build_compact_context, the loop over requests: for each line pushed to the
\* "## User Requests" section, the turn_number it starts with and the bytes of
\* truncate(&r.content, 300) that follow it.
RequestLinesWithin(requests) ==
    LET lines == [i \in DOMAIN requests |->
                     [turn_number |-> requests[i].turn_number,
                      len |-> truncate(requests[i].content, 300)]]
        fits(n) == SumSeq([i \in 1..n |-> lines[i].len]) <= COMPACT_BUDGET \div 8
    IN  SubSeq(lines, 1, Cardinality({n \in DOMAIN lines : fits(n)}))

request_lines(requests) ==
    [i \in DOMAIN requests |->
        [turn_number |-> requests[i].turn_number,
         len |-> truncate(requests[i].content, 300)]]

\* build_compact_context: the request lines of the string it returns; none in
\* the empty string of a session without turns.
compact_requests(st) ==
    IF st.all_turns = <<>> THEN <<>>
    ELSE request_lines(FilterTurns(st.all_turns, {"request"}))

\* build_compact_context: what the string it returns begins with: parts[0], the
\* header, unless it is the String::new() returned for a session without turns.
HeaderAlways(st) == "HEADER"

compact_head(st) == IF st.all_turns = <<>> THEN "" ELSE "HEADER"

build_compact_context(st) ==
    IF st.all_turns = <<>> THEN 0
    ELSE LET checkpoints == FilterTurns(st.all_turns, {"checkpoint"})
             requests == FilterTurns(st.all_turns, {"request"})
             rankable_turns ==
                 FilterTurns(st.all_turns,
                             {st.all_turns[i].turn_type : i \in DOMAIN st.all_turns}
                                \ {"request", "checkpoint"})
             checkpoint_section ==
                 IF checkpoints = <<>> THEN 0
                 ELSE 22 + SumSeq([i \in DOMAIN checkpoints |->
                                      truncate(checkpoints[i].content, 2000) + 1])
             request_section ==
                 IF requests = <<>> THEN 0
                 ELSE 17 + SumSeq([i \in DOMAIN requests |->
                                      Digits(requests[i].turn_number) + 3
                                         + truncate(requests[i].content, 300)])
             files_section ==
                 IF st.active_files = <<>> THEN 0
                 ELSE 16 + SumSeq([i \in DOMAIN st.active_files |->
                                      3 + StrLen(st.active_files[i])])
             parts == <<HEADER>> \o NonEmpty(checkpoint_section)
                         \o NonEmpty(request_section) \o NonEmpty(files_section)
             remaining_budget == SatSub(COMPACT_BUDGET, SumSeq(parts))
             ranked_context ==
                 IF rankable_turns # <<>> /\ remaining_budget > 200
                 THEN ranked_select(rankable_turns, st.active_files, remaining_budget)
                 ELSE 0
         IN  JoinLen(parts \o (IF ranked_context = 0 THEN <<>>
                               ELSE <<20 + ranked_context>>), 1)

(***************************************************************************)
(* The stores the context builders are run on.                             *)
(***************************************************************************)
FileMapEntry(path, count, name, truncated) ==
    [file_path |-> path, truncated |-> truncated,
     symbols |-> [i \in 1..count |-> [name |-> name, kind |-> "function"]]]

Codebases ==
    { [structure |-> [total_symbols |-> 0, total_files |-> 0,
                      symbol_kinds |-> <<>>, directories |-> <<>>],
       map |-> <<>>],
      [structure |-> [total_symbols |-> 6, total_files |-> 2,
                      symbol_kinds |-> <<[kind |-> "function", count |-> 6]>>,
                      directories |-> <<[dir |-> "src", count |-> 2]>>],
       map |-> [i \in 1..2 |-> FileMapEntry(12, 3, 10, FALSE)]],
      [structure |-> [total_symbols |-> 720, total_files |-> 60,
                      symbol_kinds |-> <<[kind |-> "function", count |-> 600],
                                         [kind |-> "struct", count |-> 120]>>,
                      directories |-> <<[dir |-> "src/db", count |-> 40],
                                        [dir |-> "src", count |-> 20]>>],
       map |-> [i \in 1..60 |-> FileMapEntry(24, 8, 14, TRUE)]] }

\* search::recent_sessions(conn, 3): the session of the running hook, which
\* ensure_session created, and up to two ended ones.
CurrentSession == [id |-> 36, ended |-> FALSE, summary |-> NoText]

EndedSession(summary) == [id |-> 36, ended |-> TRUE, summary |-> summary]

RecentSessions ==
    { <<CurrentSession>>,
      <<CurrentSession, EndedSession(120)>>,
      <<CurrentSession, EndedSession(450), EndedSession(NoText)>> }

Catchups == {NoText, 300, 1200}

\* The rows the knowledge query returns per category: at most 10, active, with
\* confidence above 0.5.
KnowledgeShapes ==
    { [subject |-> 12, content |-> 60, confidence |-> 700],
      [subject |-> 3, content |-> 180, confidence |-> 900],
      [subject |-> 40, content |-> 400, confidence |-> 1000] }

KnowledgeOf(categories, count, shape) ==
    [c \in Range(knowledge_categories) |->
        IF \E i \in 1..categories : knowledge_categories[i] = c
        THEN [j \in 1..count |-> shape]
        ELSE <<>>]

KnowledgeSets ==
    {KnowledgeOf(0, 0, CHOOSE shape \in KnowledgeShapes : TRUE)}
      \cup {KnowledgeOf(categories, count, shape) :
               categories \in {1, 4, 6}, count \in {3, 10}, shape \in KnowledgeShapes}

StartupStores ==
    { [source |-> "startup", structure |-> code.structure, map |-> code.map,
       sessions |-> sessions_, catchup |-> catchup, knowledge |-> entries] :
          code \in Codebases, sessions_ \in RecentSessions,
          catchup \in Catchups, entries \in KnowledgeSets }

Turn(turn_type, content, files) ==
    [turn_number |-> 0, turn_type |-> turn_type, content |-> content,
     files |-> files, age |-> "now"]

\* What the hooks of a session indexed besides prompts and checkpoints.
WorkLogs ==
    { <<>>,
      <<Turn("code_edit", 150, <<"/p/src/a.rs">>),
        Turn("file_read", 40, <<"/p/src/b.rs">>),
        Turn("bash_cmd", 900, <<>>)>>,
      [i \in 1..25 |-> Turn("code_edit", 900, <<"/p/src/a.rs">>)] }

\* turn_number as index_turn assigns it to calls made one after the other.
Numbered(list) == [i \in DOMAIN list |-> [list[i] EXCEPT !.turn_number = i]]

\* search::active_files(conn, session_id, 20): the distinct files of the
\* session's edits, latest first.
RECURSIVE active_files(_, _)
active_files(list, seen) ==
    IF list = <<>> THEN <<>>
    ELSE LET t == list[Len(list)]
             rest == SubSeq(list, 1, Len(list) - 1)
         IN  IF t.turn_type = "code_edit" /\ t.files # <<>> /\ t.files[1] \notin seen
             THEN <<t.files[1]>> \o active_files(rest, seen \cup {t.files[1]})
             ELSE active_files(rest, seen)

SessionTurns ==
    { Numbered([i \in 1..requests |-> Turn("request", request, <<>>)]
               \o work
               \o [i \in 1..checkpoints |-> Turn("checkpoint", checkpoint, <<>>)]) :
          requests \in {0, 2, 12}, request \in {80, 400},
          checkpoints \in {0, 1, 8}, checkpoint \in {500, 2500},
          work \in WorkLogs }

CompactStores ==
    { [source |-> "compact", all_turns |-> turns_,
       active_files |-> Take(active_files(turns_, {}), 20)] : turns_ \in SessionTurns }

InitInject ==
    /\ store \in StartupStores \cup CompactStores
    /\ context = NoContext
    /\ IdleExceptInject

\* handle_start, source "startup": inject::build_startup_context(&db)?
BuildStartupContext ==
    /\ store.source = "startup"
    /\ context = NoContext
    /\ context' = [source |-> "startup", len |-> build_startup_context(store),
                   head |-> "HEADER", requests |-> <<>>]
    /\ UNCHANGED <<store, exceptInject>>

\* handle_start, source "compact": inject::build_compact_context(&db, &session_id)?
BuildCompactContext ==
    /\ store.source = "compact"
    /\ context = NoContext
    /\ context' = [source |-> "compact", len |-> build_compact_context(store),
                   head |-> compact_head(store), requests |-> compact_requests(store)]
    /\ UNCHANGED <<store, exceptInject>>

NextInject ==
    \/ BuildStartupContext
    \/ BuildCompactContext

SpecInject == InitInject /\ [][NextInject]_vars

\* C4: build_startup_context returns a string of at most 8,000 bytes, whatever
\* the store holds.
C4_StartupWithinBudget ==
    context.source = "startup" => context.len <= STARTUP_BUDGET

\* C5: build_compact_context returns a string of at most 16,000 bytes, whatever
\* the session's turns and active files are.
C5_CompactWithinBudget ==
    context.source = "compact" => context.len <= COMPACT_BUDGET

\* The request turns of the session build_compact_context was run on.
RequestTurns == FilterTurns(store.all_turns, {"request"})

RowsOfFile(rows, path) == SelectSeq(rows, LAMBDA r : r.file_path = path)

\* The names of the symbols the table holds for a file, in primary-key order.
NamesOfFile(rows, path) ==
    [i \in DOMAIN RowsOfFile(rows, path) |-> RowsOfFile(rows, path)[i].name]

\* DELETE FROM symbols WHERE file_path = ?1
delete_symbols(rows, path) == SelectSeq(rows, LAMBDA r : r.file_path # path)

\* insert_symbol: INSERT INTO symbols (file_path, name, ...)
insert_symbol(rows, path, name) == Append(rows, [file_path |-> path, name |-> name])

IndexersIdle == \A p \in Indexers : indexer[p].pc = "idle"

\* The user edits a source file: its content becomes another of its versions.
EditFile(path) ==
    /\ \E v \in Versions[path] \ {disk[path]} : disk' = [disk EXCEPT ![path] = v]
    /\ UNCHANGED <<symbols, indexer, index_runs, exceptSymbols>>

\* index_file: std::fs::read, then symbols::extract_symbols
ReadAndExtract(p, path) ==
    /\ indexer[p].pc = "idle"
    /\ index_runs < MaxIndexRuns
    /\ index_runs' = index_runs + 1
    /\ indexer' = [indexer EXCEPT ![p] =
                      [pc |-> "extracted", file_path |-> path, extracted |-> disk[path]]]
    /\ UNCHANGED <<symbols, disk, exceptSymbols>>

\* index_file: DELETE FROM symbols WHERE file_path = ?1.  The DELETE FROM
\* symbol_refs that follows selects the symbols of the file, of which the first
\* statement has left none, and changes no table of the model.
DeleteSymbols(p) ==
    /\ indexer[p].pc = "extracted"
    /\ symbols' = delete_symbols(symbols, indexer[p].file_path)
    /\ indexer' = [indexer EXCEPT ![p].pc = "deleted"]
    /\ UNCHANGED <<disk, index_runs, exceptSymbols>>

\* index_file: one round of the loop over the extracted symbols; after the last
\* one it returns.
InsertSymbol(p) ==
    /\ indexer[p].pc = "deleted"
    /\ symbols' = insert_symbol(symbols, indexer[p].file_path, Head(indexer[p].extracted))
    /\ indexer' = [indexer EXCEPT ![p] =
                      IF Tail(indexer[p].extracted) = <<>> THEN IdleIndexer
                      ELSE [indexer[p] EXCEPT !.extracted = Tail(indexer[p].extracted)]]
    /\ UNCHANGED <<disk, index_runs, exceptSymbols>>

InitSymbols == SymbolsIdle /\ IdleExceptSymbols

NextSymbols ==
    \/ \E path \in SourcePaths : EditFile(path)
    \/ \E p \in Indexers, path \in SourcePaths : ReadAndExtract(p, path)
    \/ \E p \in Indexers : DeleteSymbols(p)
    \/ \E p \in Indexers : InsertSymbol(p)

SpecSymbols == InitSymbols /\ [][NextSymbols]_vars

\* C12: reindexing a file replaces its symbols as one atomic step: once every
\* index_file run has completed, whatever their interleaving on one path by
\* different processes, the symbols table holds for each file exactly the symbols
\* extracted from one content of that file, each once (none duplicated, none left
\* over), and the symbols of the other files are as they were.
C12_ReindexReplaces ==
    IndexersIdle =>
        \A path \in SourcePaths : NamesOfFile(symbols, path) \in Versions[path]

(***************************************************************************)
(* inject/ranking.rs: ranked_select on its own, with the entries of the    *)
(* string it returns: for each turn pushed to the output, its turn_number  *)
(* and the number of bytes pushed for it.                                  *)
(***************************************************************************)
\* ranked_select: the loop that formats the output, entry by entry.
RECURSIVE EmitEntries(_, _, _)
EmitEntries(entries, selected, budget_chars) ==
    IF selected = <<>> THEN entries
    ELSE LET formatted == format_turn_for_injection(Head(selected).turn)
             output == SumSeq([i \in DOMAIN entries |-> entries[i].len])
             remaining == SatSub(budget_chars, output)
             entry(len) == [turn_number |-> Head(selected).turn.turn_number,
                            score |-> Head(selected).score, len |-> len]
         IN  IF Len(selected) = 1 /\ output + formatted > budget_chars
             THEN IF remaining > 50
                  THEN Append(entries, entry(Min(remaining, formatted)))
                  ELSE entries
             ELSE EmitEntries(Append(entries, entry(formatted)), Tail(selected),
                              budget_chars)

ranked_entries(list, context_files, budget_chars) ==
    LET scored == SortByScore(<<>>,
                      [i \in DOMAIN list |->
                          [turn |-> list[i],
                           score |-> score_turn(list[i], context_files)]])
        selected == SortByTurnNumber(<<>>, SelectWithin(<<>>, 0, scored, budget_chars))
    IN  EmitEntries(<<>>, selected, budget_chars)

\* The turns ranked_select is run on: a decision, an edit, a command and an
\* error with a long message, of this minute.
CandidateTurns ==
    { Turn("decision", 183, <<>>),
      Turn("code_edit", 380, <<"/p/src/a.rs">>),
      Turn("bash_cmd", 288, <<>>),
      Turn("error", 900, <<>>) }

\* The lists of up to three of them, in the order of their turn_number, as
\* search::session_turns returns them.
CandidateLists ==
    UNION { {Numbered(list) : list \in [1..n -> CandidateTurns]} : n \in 1..3 }

Budgets == {250, 300, 550, 720, 1500}

RankedInputs ==
    { [list |-> list, context_files |-> files, budget_chars |-> budget,
       output |-> NoOutput] :
          list \in CandidateLists, files \in {<<>>, <<"/p/src/a.rs">>},
          budget \in Budgets }

InitRanked ==
    /\ ranked \in RankedInputs
    /\ IdleExceptRanked

\* ranking::ranked_select(&turns, &context_files, budget_chars)
RankedSelect ==
    /\ ranked.output = NoOutput
    /\ ranked' =
          [ranked EXCEPT !.output =
              [len |-> ranked_select(ranked.list, ranked.context_files,
                                     ranked.budget_chars),
               entries |-> ranked_entries(ranked.list, ranked.context_files,
                                          ranked.budget_chars)]]
    /\ UNCHANGED exceptRanked

NextRanked == RankedSelect

SpecRanked == InitRanked /\ [][NextRanked]_vars

\* C13: ranked_select returns a string of at most budget bytes, for every list
\* of candidate turns, in any arrangement of turn numbers and scores, and every
\* budget.
C13_RankedWithinBudget ==
    ranked.output # NoOutput => ranked.output.len <= ranked.budget_chars

TurnsIn(entries) == {entries[i].turn_number : i \in DOMAIN entries}

\* C14: for fixed candidate turns and active files, raising the budget given to
\* ranked_select never removes a turn from the output: every turn that appears,
\* fully or truncated, in the output at budget B appears in the output at every
\* budget above B.
C14_BudgetMonotone ==
    ranked.output # NoOutput =>
        \A budget \in Budgets :
            budget < ranked.budget_chars =>
                TurnsIn(ranked_entries(ranked.list, ranked.context_files, budget))
                    \subseteq TurnsIn(ranked.output.entries)

\* C15: the entries of the output of ranked_select appear in ascending
\* turn_number order; in particular two selected turns of equal score appear in
\* their turn_number order.
C15_AscendingTurnNumbers ==
    \A i, j \in DOMAIN ranked.output.entries :
        i < j => ranked.output.entries[i].turn_number
                    < ranked.output.entries[j].turn_number

\* C15 witness: an output of three entries, the first two of equal score and the
\* last one of a higher score than both, which the selection loop took first.
C15_Witness ==
    /\ Len(ranked.output.entries) = 3
    /\ ranked.output.entries[1].score = ranked.output.entries[2].score
    /\ ranked.output.entries[3].score > ranked.output.entries[2].score

\* The candidates of a ranked_select call in the order of its selection loop.
ScoreOrder ==
    SortByScore(<<>>, [i \in DOMAIN ranked.list |->
                          [turn |-> ranked.list[i],
                           score |-> score_turn(ranked.list[i], ranked.context_files)]])

\* The bytes the first n of them take.
SizeOfFirst(n) ==
    SumSeq([i \in 1..n |-> format_turn_for_injection(ScoreOrder[i].turn)])

\* How many of them fit the budget whole, one after the other.
FittingPrefix ==
    Cardinality({n \in DOMAIN ScoreOrder : SizeOfFirst(n) <= ranked.budget_chars})

QUOTE == "\""
STAR == "*"
SPACE == " "

\* The pieces of a text at which `pieces` cut it, empty runs dropped.
RECURSIVE SplitAt(_, _, _, _)
SplitAt(text, pieces, current, done) ==
    IF text = <<>>
    THEN IF current = <<>> THEN done ELSE Append(done, current)
    ELSE IF Head(text) \in pieces
         THEN SplitAt(Tail(text), pieces, <<>>,
                      IF current = <<>> THEN done ELSE Append(done, current))
         ELSE SplitAt(Tail(text), pieces, Append(current, Head(text)), done)

\* str::split_whitespace
split_whitespace(text) == SplitAt(text, {SPACE}, <<>>, <<>>)

\* sanitize_fts_query: each whitespace-separated token without its double
\* quotes; the returned string wraps each in double quotes and joins them with
\* spaces, and is the empty string when the query holds no token.
sanitize_fts_query(query) ==
    [i \in DOMAIN split_whitespace(query) |->
        SelectSeq(split_whitespace(query)[i], LAMBDA piece : piece # QUOTE)]

\* The porter tokenizer over unicode61, on one word: case folded, suffix
\* stripped.
Stem(word) ==
    CASE word \in {"runs", "running"} -> "run"
      [] word = "walks" -> "walk"
      [] word = "OR" -> "or"
      [] OTHER -> word

\* A tokenizer that would index words as written.
TokenizeVerbatim(text) == SplitAt(text, {SPACE, QUOTE, STAR}, <<>>, <<>>)

\* tokenize='porter unicode61': the terms of a text.  Every character that is
\* neither letter nor digit separates tokens and is dropped.
Tokenize(text) ==
    LET tokens == SplitAt(text, {SPACE, QUOTE, STAR}, <<>>, <<>>)
    IN  [i \in DOMAIN tokens |->
            IF Len(tokens[i]) = 1 THEN <<Stem(tokens[i][1])>> ELSE tokens[i]]

\* COALESCE(new.content_summary, ''): an Option is <<>> or <<text>>.
coalesce(option) == IF option = <<>> THEN <<>> ELSE option[1]

FtsRow(row) ==
    [content |-> Tokenize(row.content),
     content_summary |-> Tokenize(coalesce(row.content_summary))]

\* CREATE TRIGGER turns_ai AFTER INSERT ON turns
turns_ai(fts, id, row) ==
    [i \in (DOMAIN fts) \cup {id} |-> IF i = id THEN FtsRow(row) ELSE fts[i]]

\* A trigger that would leave the indexed row as it was.
KeepFtsRow(fts, id, row) == fts

\* CREATE TRIGGER turns_au AFTER UPDATE OF content, content_summary ON turns
turns_au(fts, id, row) ==
    [i \in DOMAIN fts |-> IF i = id THEN FtsRow(row) ELSE fts[i]]

\* CREATE TRIGGER turns_ad AFTER DELETE ON turns
turns_ad(fts, id) == [i \in (DOMAIN fts) \ {id} |-> fts[i]]

\* The terms of a phrase occur next to each other, in order, in a column.
Occurs(phrase, terms) ==
    \E k \in 0..(Len(terms) - Len(phrase)) :
        SubSeq(terms, k + 1, k + Len(phrase)) = phrase

\* turns_fts MATCH ?1 on a string of quoted phrases: the empty string is a
\* syntax error; a phrase without a term is left out of the implicit AND, and
\* an expression of such phrases only matches no row.
fts5_match(fts, expr) ==
    LET phrases == SelectSeq([i \in DOMAIN expr |-> Tokenize(expr[i])],
                             LAMBDA phrase : phrase # <<>>)
    IN  IF expr = <<>> THEN [ok |-> FALSE, rows |-> {}]
        ELSE IF phrases = <<>> THEN [ok |-> TRUE, rows |-> {}]
        ELSE [ok |-> TRUE,
              rows |-> {id \in DOMAIN fts :
                          \A i \in DOMAIN phrases :
                              \/ Occurs(phrases[i], fts[id].content)
                              \/ Occurs(phrases[i], fts[id].content_summary)}]

\* search_turns: turns_fts JOIN turns ... WHERE turns_fts MATCH ?1 [AND
\* t.turn_type = ?] ... LIMIT.  The tables of the model hold fewer rows than
\* the limit the server passes by default (10).
search_turns(fts, rows, query, turn_types) ==
    LET found == fts5_match(fts, sanitize_fts_query(query))
    IN  [found EXCEPT !.rows = {id \in found.rows \cap DOMAIN rows :
                                   rows[id].turn_type \in turn_types}]

TextTurnTypes == {"request", "decision"}

\* memory_search: limit 10, no session_id and no turn_type filter.
memory_search(fts, rows, query) ==
    LET found == search_turns(fts, rows, query, TextTurnTypes)
    IN  IF ~found.ok
        THEN [kind |-> "error", text |-> "Search failed", rows |-> {}]
        ELSE IF found.rows = {}
        THEN [kind |-> "success", text |-> "No matching results found.", rows |-> {}]
        ELSE [kind |-> "success", text |-> "turns", rows |-> found.rows]

\* memory_decisions: search_knowledge on knowledge_fts, which holds no row while
\* nothing has been distilled, then search_turns with turn_type "decision".
memory_decisions(fts, rows, query) ==
    LET knowledge_results == fts5_match(EmptyTable, sanitize_fts_query(query))
        turn_results == search_turns(fts, rows, query, {"decision"})
    IN  IF ~knowledge_results.ok \/ ~turn_results.ok
        THEN [kind |-> "error", text |-> "Search failed", rows |-> {}]
        ELSE IF knowledge_results.rows = {} /\ turn_results.rows = {}
        THEN [kind |-> "success", text |-> "No matching decisions found.", rows |-> {}]
        ELSE [kind |-> "success", text |-> "decisions", rows |-> turn_results.rows]

TurnContents ==
    { <<"runs">>,
      <<"running", SPACE, "walks">>,
      <<"a", QUOTE, "b", SPACE, STAR, SPACE, "OR">> }

TurnSummaries == { <<>>, << <<"walks">> >> }

Queries ==
    { <<"runs">>, <<"running">>, <<"walks">>, <<"OR">>, <<STAR>>,
      <<"a", QUOTE, "b">>, <<QUOTE, "walks", QUOTE>>, <<"walks", SPACE, STAR>>,
      <<>>, <<SPACE>> }

\* index_turn: INSERT INTO turns (..., content, ...), content_summary left NULL;
\* the trigger turns_ai runs in the same statement.
IndexTurnText(turn_type, content) ==
    /\ text_seq < MaxTexts
    /\ LET row == [turn_type |-> turn_type, content |-> content,
                   content_summary |-> <<>>]
       IN  /\ turn_text' = [i \in (DOMAIN turn_text) \cup {text_seq + 1} |->
                               IF i = text_seq + 1 THEN row ELSE turn_text[i]]
           /\ turns_fts' = turns_ai(turns_fts, text_seq + 1, row)
    /\ text_seq' = text_seq + 1
    /\ reply' = NoReply
    /\ UNCHANGED exceptFts

\* UPDATE turns SET content = ?, content_summary = ? WHERE id = ?, with the
\* trigger turns_au.
UpdateTurnText(id, content, summary) ==
    /\ id \in DOMAIN turn_text
    /\ LET row == [turn_text[id] EXCEPT !.content = content,
                                        !.content_summary = summary]
       IN  /\ row # turn_text[id]
           /\ turn_text' = [turn_text EXCEPT ![id] = row]
           /\ turns_fts' = turns_au(turns_fts, id, row)
    /\ reply' = NoReply
    /\ UNCHANGED <<text_seq, exceptFts>>

\* DELETE FROM turns WHERE id = ?, with the trigger turns_ad.
DeleteTurnText(id) ==
    /\ id \in DOMAIN turn_text
    /\ turn_text' = [i \in (DOMAIN turn_text) \ {id} |-> turn_text[i]]
    /\ turns_fts' = turns_ad(turns_fts, id)
    /\ reply' = NoReply
    /\ UNCHANGED <<text_seq, exceptFts>>

MemorySearch(query) ==
    /\ reply' = [tool |-> "memory_search", query |-> query,
                 response |-> memory_search(turns_fts, turn_text, query)]
    /\ UNCHANGED <<turn_text, turns_fts, text_seq, exceptFts>>

MemoryDecisions(query) ==
    /\ reply' = [tool |-> "memory_decisions", query |-> query,
                 response |-> memory_decisions(turns_fts, turn_text, query)]
    /\ UNCHANGED <<turn_text, turns_fts, text_seq, exceptFts>>

InitSearch == FtsIdle /\ IdleExceptFts

NextSearch ==
    \/ \E turn_type \in TextTurnTypes, content \in TurnContents :
          IndexTurnText(turn_type, content)
    \/ \E id \in 1..MaxTexts, content \in TurnContents, summary \in TurnSummaries :
          UpdateTurnText(id, content, summary)
    \/ \E id \in 1..MaxTexts : DeleteTurnText(id)
    \/ \E query \in Queries : MemorySearch(query)
    \/ \E query \in Queries : MemoryDecisions(query)

SpecSearch == InitSearch /\ [][NextSearch]_vars

SearchWords == {"runs", "running", "walks"}

\* The words of a row's content and content_summary, as written.
WordsOf(row) ==
    {w \in SearchWords :
        \/ <<w>> \in Range(TokenizeVerbatim(row.content))
        \/ <<w>> \in Range(TokenizeVerbatim(coalesce(row.content_summary)))}

\* C16 as stated: the full-text index mirrors the turns table after any
\* sequence of inserts, content updates and deletes: a search for token T returns
\* a turn exactly when its current content (or content_summary) contains T.
C16_SearchFindsToken ==
    \A w \in SearchWords :
        search_turns(turns_fts, turn_text, <<w>>, TextTurnTypes).rows
            = {id \in DOMAIN turn_text : w \in WordsOf(turn_text[id])}

\* C16 amended: after any sequence of inserts, content updates and deletes, a
\* search for word T returns a turn exactly when its current content or
\* content_summary holds a word with the stem of T.
C16_SearchFindsStem ==
    \A w \in SearchWords :
        search_turns(turns_fts, turn_text, <<w>>, TextTurnTypes).rows
            = {id \in DOMAIN turn_text :
                  \E v \in WordsOf(turn_text[id]) : Stem(v) = Stem(w)}

\* C16 witness: a turn was deleted, another one had its content and summary
\* updated, and a search for a word of the new summary returned it.
C16_Witness ==
    /\ text_seq > Cardinality(DOMAIN turn_text)
    /\ reply.tool = "memory_search"
    /\ reply.query = <<"walks">>
    /\ \E id \in reply.response.rows :
          /\ turn_text[id].content = <<"runs">>
          /\ turn_text[id].content_summary = << <<"walks">> >>

\* The rows whose content holds, between its spaces, every token of the query
\* as written.
HoldingTokens(rows, query) ==
    {id \in DOMAIN rows :
        Range(split_whitespace(query)) \subseteq Range(split_whitespace(rows[id].content))}

\* C17: a memory_search query containing a double-quote character, '*' or the
\* word OR never makes the search fail; such tokens are taken as literals, not as
\* FTS operators, and match the turns whose content contains those tokens.
C17_OperatorsAreLiterals ==
    (/\ reply.tool = "memory_search"
     /\ Range(reply.query) \cap {QUOTE, STAR, "OR"} # {})
        => /\ reply.response.kind = "success"
           /\ HoldingTokens(turn_text, reply.query) \subseteq reply.response.rows

\* C18: when the underlying FTS query fails (a query that is empty or sanitises
\* to an empty match expression), memory_search and memory_decisions return a
\* successful result with an empty result set and a text message, not a protocol
\* error.
C18_FailedQueryIsEmptyResult ==
    (/\ reply.tool \in {"memory_search", "memory_decisions"}
     /\ ~fts5_match(turns_fts, sanitize_fts_query(reply.query)).ok)
        => /\ reply.response.kind = "success"
           /\ reply.response.rows = {}

(***************************************************************************)
(* indexer/files.rs: catchup, which the SessionStart hook runs on startup  *)
(* in a project that is not a git repository.  The files of the project    *)
(* carry no recognised source extension, so that code::reindex_file        *)
(* returns Ok(0) for them and the symbols table has no row of theirs.      *)
(* Contents are numbered; hash_file (SipHash with fixed keys) is a         *)
(* function of the content alone, and different numbers stand for contents *)
(* with different hashes.                                                  *)
(***************************************************************************)
TreePaths == {"notes.txt", "data.csv"}
FileContents == {1, 2}

hash_file(content) == content

\* walk_and_hash: relative path -> hash, for every file of the walk
walk_and_hash(files) == [path \in DOMAIN files |-> hash_file(files[path])]

\* Storing that would write no row.
StoreNothing(table, hashes) == table

\* store_all_hashes: INSERT ... ON CONFLICT(project_dir, file_path) DO UPDATE,
\* once per walked file
store_all_hashes(table, hashes) ==
    [path \in (DOMAIN table) \cup (DOMAIN hashes) |->
        IF path \in DOMAIN hashes THEN hashes[path] ELSE table[path]]

ChangedFiles(current_hashes, stored_hashes) ==
    {path \in (DOMAIN current_hashes) \cap (DOMAIN stored_hashes) :
        stored_hashes[path] # current_hashes[path]}

AddedFiles(current_hashes, stored_hashes) ==
    (DOMAIN current_hashes) \ (DOMAIN stored_hashes)

DeletedFiles(current_hashes, stored_hashes) ==
    (DOMAIN stored_hashes) \ (DOMAIN current_hashes)

NoChanges == [files_changed |-> 0, files_added |-> 0, files_deleted |-> 0]

\* catchup up to its second return: what it reports, or that it goes on.
CatchupStats(current_hashes, stored_hashes) ==
    IF stored_hashes = EmptyTable THEN NoChanges
    ELSE [files_changed |-> Cardinality(ChangedFiles(current_hashes, stored_hashes)),
          files_added |-> Cardinality(AddedFiles(current_hashes, stored_hashes)),
          files_deleted |-> Cardinality(DeletedFiles(current_hashes, stored_hashes))]

\* The user changes the project between two sessions.
WriteFile(path, content) ==
    /\ IF path \in DOMAIN tree THEN tree[path] # content ELSE TRUE
    /\ tree' = [q \in (DOMAIN tree) \cup {path} |-> IF q = path THEN content ELSE tree[q]]
    /\ UNCHANGED <<file_hashes, catchup_log, exceptCatchup>>

RemoveFile(path) ==
    /\ path \in DOMAIN tree
    /\ tree' = [q \in (DOMAIN tree) \ {path} |-> tree[q]]
    /\ UNCHANGED <<file_hashes, catchup_log, exceptCatchup>>

\* handle_start: ensure_session, then files::catchup.  With no stored hash
\* (first run): store_all_hashes and return.
CatchupFirstRun(sid) ==
    /\ Len(catchup_log) < MaxCatchups
    /\ file_hashes = EmptyTable
    /\ file_hashes' = store_all_hashes(file_hashes, walk_and_hash(tree))
    /\ catchup_log' = Append(catchup_log,
                             [walked |-> tree, stored |-> file_hashes', returned |-> TRUE,
                              stats |-> CatchupStats(walk_and_hash(tree), file_hashes),
                              turn_id |-> 0])
    /\ sessions' = sessions \cup {sid}
    /\ UNCHANGED <<tree, turns, turn_files, hook, exceptCatchupAndTurns>>

\* catchup with stored hashes equal to the current ones: return at once.
CatchupNoChange(sid) ==
    /\ Len(catchup_log) < MaxCatchups
    /\ file_hashes # EmptyTable
    /\ CatchupStats(walk_and_hash(tree), file_hashes) = NoChanges
    /\ catchup_log' = Append(catchup_log,
                             [walked |-> tree, stored |-> file_hashes, returned |-> TRUE,
                              stats |-> NoChanges, turn_id |-> 0])
    /\ sessions' = sessions \cup {sid}
    /\ UNCHANGED <<tree, file_hashes, turns, turn_files, hook, exceptCatchupAndTurns>>

\* catchup with changes: index_turn of a file_catchup turn with one reference
\* per file, reindex_file of the changed and added files, DELETE FROM
\* file_hashes of the deleted ones under `let conn = db.conn()`, and then
\* store_all_hashes, whose own db.conn() locks the mutex this thread still
\* holds: the call never returns and the new hashes are not stored.
CatchupChanges(sid) ==
    /\ Len(catchup_log) < MaxCatchups
    /\ file_hashes # EmptyTable
    /\ LET current_hashes == walk_and_hash(tree)
           stats == CatchupStats(current_hashes, file_hashes)
           file_refs ==
               {[turn_id |-> Len(turns) + 1, file_path |-> path, action |-> "file_change"] :
                    path \in ChangedFiles(current_hashes, file_hashes)}
                 \cup
               {[turn_id |-> Len(turns) + 1, file_path |-> path, action |-> "file_add"] :
                    path \in AddedFiles(current_hashes, file_hashes)}
                 \cup
               {[turn_id |-> Len(turns) + 1, file_path |-> path, action |-> "file_delete"] :
                    path \in DeletedFiles(current_hashes, file_hashes)}
       IN  /\ stats # NoChanges
           /\ sessions' = sessions \cup {sid}
           /\ turns' = Append(turns, [session_id |-> sid,
                                      turn_number |-> next_turn_number(turns, sid),
                                      turn_type |-> "file_catchup"])
           /\ turn_files' = turn_files \cup file_refs
           /\ file_hashes' = [path \in (DOMAIN file_hashes)
                                         \ DeletedFiles(current_hashes, file_hashes) |->
                                 file_hashes[path]]
           /\ catchup_log' = Append(catchup_log,
                                    [walked |-> tree, stored |-> file_hashes',
                                     returned |-> FALSE, stats |-> stats,
                                     turn_id |-> Len(turns) + 1])
    /\ UNCHANGED <<tree, hook, exceptCatchupAndTurns>>

InitCatchup == CatchupIdle /\ IdleExceptCatchup

NextCatchup ==
    \/ \E path \in TreePaths, content \in FileContents : WriteFile(path, content)
    \/ \E path \in TreePaths : RemoveFile(path)
    \/ \E sid \in SessionIds : CatchupFirstRun(sid)
    \/ \E sid \in SessionIds : CatchupNoChange(sid)
    \/ \E sid \in SessionIds : CatchupChanges(sid)

SpecCatchup == InitCatchup /\ [][NextCatchup]_vars

\* C19: on the first hash catch-up run of a project (no stored hashes), catchup
\* reports zero changed, added and deleted files, writes no turn and stores a
\* hash for every walked file; a second run with no filesystem change in between
\* also reports zero changes and writes no turn.
C19_FirstRunSeeds ==
    /\ Len(catchup_log) >= 1 =>
          /\ catchup_log[1].returned
          /\ catchup_log[1].stats = NoChanges
          /\ catchup_log[1].turn_id = 0
          /\ catchup_log[1].stored = walk_and_hash(catchup_log[1].walked)
    /\ (Len(catchup_log) >= 2 /\ catchup_log[2].walked = catchup_log[1].walked) =>
          /\ catchup_log[2].returned
          /\ catchup_log[2].stats = NoChanges
          /\ catchup_log[2].turn_id = 0
    /\ (\A i \in DOMAIN catchup_log : catchup_log[i].turn_id = 0) => turns = <<>>

\* C19 witness: a first run over two files, then a second run over the same
\* files.
C19_Witness ==
    /\ Len(catchup_log) = 2
    /\ DOMAIN catchup_log[1].walked = TreePaths
    /\ catchup_log[2].walked = catchup_log[1].walked

(***************************************************************************)
(* indexer/distill.rs: distill_session_llm; hooks/pre_tool_use.rs:         *)
(* build_explore_briefing.  Db::conn() returns the guard of the std Mutex  *)
(* around the connection of one Db, so the lock exists once per process.   *)
(***************************************************************************)
\* db.conn(): the mutex is taken when no thread of the process holds it.
lock_conn(locks, thread) == [locks EXCEPT ![ProcessOf(thread)] = thread]

\* A function that would keep its guard across the call that follows.
KeepConn(locks, thread) == locks

\* drop(conn), written out or at the return that ends the guard's scope
drop_conn(locks, thread) == [locks EXCEPT ![ProcessOf(thread)] = "free"]

\* entry.confidence.clamp(0.1, 1.0), in thousandths
clamp_confidence(confidence) == Max(100, Min(1000, confidence))

\* What the summarizer answers to the distillation prompt, parsed: no entry, one
\* entry, or two entries on one subject that disagree.
LlmResponses ==
    { <<>>,
      << [category |-> "convention", subject |-> "database",
          content |-> {"uses", "sqlite", "local", "storage"}, confidence |-> 1200] >>,
      << [category |-> "convention", subject |-> "database",
          content |-> {"uses", "sqlite", "local", "storage"}, confidence |-> 900],
         [category |-> "convention", subject |-> "database",
          content |-> {"postgres", "replica", "over", "sqlite"}, confidence |-> 50] >> }

\* distill_session_llm: let conn = db.conn()
DistillLock ==
    /\ worker["poller"].pc = "idle"
    /\ db_lock["server"] = "free"
    /\ db_lock' = lock_conn(db_lock, "poller")
    /\ worker' = [worker EXCEPT !["poller"].pc = "reading"]
    /\ UNCHANGED <<llm_calls, exceptDistill>>

\* distill_session_llm: search::session_turns(&conn, session_id)?, drop(conn),
\* the return for a session without turns, the transcript, and the start of
\* llm.complete.
DistillRead(has_turns) ==
    /\ worker["poller"].pc = "reading"
    /\ db_lock' = drop_conn(db_lock, "poller")
    /\ IF has_turns /\ llm_calls < MaxLlmCalls
       THEN /\ worker' = [worker EXCEPT !["poller"].pc = "llm_call"]
            /\ llm_calls' = llm_calls + 1
       ELSE /\ worker' = [worker EXCEPT !["poller"] = IdleWorker]
            /\ UNCHANGED llm_calls
    /\ UNCHANGED exceptDistill

\* distill_session_llm: llm.complete returns an error, or text that does not
\* parse (the caller falls back to the heuristics).
DistillLlmFails ==
    /\ worker["poller"].pc = "llm_call"
    /\ worker' = [worker EXCEPT !["poller"] = IdleWorker]
    /\ UNCHANGED <<db_lock, llm_calls, exceptDistill>>

\* distill_session_llm: llm.complete returns and the response parses.
DistillLlmAnswers(entries) ==
    /\ worker["poller"].pc = "llm_call"
    /\ worker' = [worker EXCEPT !["poller"] =
                     IF entries = <<>> THEN IdleWorker
                     ELSE [pc |-> "upserting", entries |-> entries]]
    /\ UNCHANGED <<db_lock, llm_calls, exceptDistill>>

\* distill_session_llm: one round of the loop over the entries.  upsert_knowledge
\* takes db.conn() and holds it until it returns.
DistillUpsert ==
    /\ worker["poller"].pc = "upserting"
    /\ db_lock["server"] = "free"
    /\ LET entry == Head(worker["poller"].entries)
       IN  knowledge' = upsert_knowledge(knowledge, entry.category, entry.subject,
                                         entry.content,
                                         clamp_confidence(entry.confidence))
    /\ worker' = [worker EXCEPT !["poller"] =
                     IF Tail(worker["poller"].entries) = <<>> THEN IdleWorker
                     ELSE [@ EXCEPT !.entries = Tail(@)]]
    /\ UNCHANGED <<db_lock, llm_calls, exceptDistillAndKnowledge>>

\* The file watcher of the server takes the same mutex for a reindex.
WatcherLock ==
    /\ worker["watcher"].pc = "idle"
    /\ db_lock["server"] = "free"
    /\ db_lock' = lock_conn(db_lock, "watcher")
    /\ worker' = [worker EXCEPT !["watcher"].pc = "indexing"]
    /\ UNCHANGED <<llm_calls, exceptDistill>>

WatcherUnlock ==
    /\ worker["watcher"].pc = "indexing"
    /\ db_lock' = drop_conn(db_lock, "watcher")
    /\ worker' = [worker EXCEPT !["watcher"] = IdleWorker]
    /\ UNCHANGED <<llm_calls, exceptDistill>>

\* build_explore_briefing: Db::open, let conn = db.conn()
BriefingLock ==
    /\ worker["pre_tool_use"].pc = "idle"
    /\ db_lock["hook"] = "free"
    /\ db_lock' = lock_conn(db_lock, "pre_tool_use")
    /\ worker' = [worker EXCEPT !["pre_tool_use"].pc = "querying"]
    /\ UNCHANGED <<llm_calls, exceptDistill>>

\* build_explore_briefing: extract_keywords and the return for none; the symbol
\* and knowledge queries; drop(conn); the return when nothing was found;
\* format_raw_data; with a summarizer configured, the start of synthesize_briefing.
BriefingQuery(found, configured) ==
    /\ worker["pre_tool_use"].pc = "querying"
    /\ db_lock' = drop_conn(db_lock, "pre_tool_use")
    /\ IF found /\ configured /\ llm_calls < MaxLlmCalls
       THEN /\ worker' = [worker EXCEPT !["pre_tool_use"].pc = "llm_call"]
            /\ llm_calls' = llm_calls + 1
       ELSE /\ worker' = [worker EXCEPT !["pre_tool_use"] = IdleWorker]
            /\ UNCHANGED llm_calls
    /\ UNCHANGED exceptDistill

\* build_explore_briefing: synthesize_briefing returns, with a report or an
\* error (the raw data is used).
BriefingLlmReturns ==
    /\ worker["pre_tool_use"].pc = "llm_call"
    /\ worker' = [worker EXCEPT !["pre_tool_use"] = IdleWorker]
    /\ UNCHANGED <<db_lock, llm_calls, exceptDistill>>

InitDistill == DistillIdle /\ IdleExceptDistill

NextDistill ==
    \/ DistillLock
    \/ \E has_turns \in BOOLEAN : DistillRead(has_turns)
    \/ DistillLlmFails
    \/ \E entries \in LlmResponses : DistillLlmAnswers(entries)
    \/ DistillUpsert
    \/ WatcherLock
    \/ WatcherUnlock
    \/ BriefingLock
    \/ \E found \in BOOLEAN, configured \in BOOLEAN : BriefingQuery(found, configured)
    \/ BriefingLlmReturns

SpecDistill == InitDistill /\ [][NextDistill]_vars

\* C20: the store connection lock is never held while a summarizer (LLM) network
\* call is in progress: distill_session_llm and build_explore_briefing release
\* the lock before calling the summarizer and take it again only after the call
\* has returned.
C20_NoLockDuringLlmCall ==
    \A thread \in Threads :
        worker[thread].pc = "llm_call" => db_lock[ProcessOf(thread)] # thread

\* C20 witness: both summarizer calls are in progress, and meanwhile the file
\* watcher has taken the lock of the server.
C20_Witness ==
    /\ worker["poller"].pc = "llm_call"
    /\ worker["pre_tool_use"].pc = "llm_call"
    /\ db_lock["server"] = "watcher"

(***************************************************************************)
(* hooks/session.rs: handle_end, the SessionEnd hook, in a store where     *)
(* hooks/prompt.rs has indexed the session's requests.  One hook process   *)
(* runs at a time.                                                         *)
(***************************************************************************)
\* hooks/prompt.rs handle: ensure_session, then index_turn(.., "request", ..).
UserPrompt(sid) ==
    /\ handler.pc = "idle"
    /\ Len(turns) < MaxTurns
    /\ sessions' = sessions \cup {sid}
    /\ turns' = Append(turns, [session_id |-> sid,
                               turn_number |-> next_turn_number(turns, sid),
                               turn_type |-> "request"])
    /\ UNCHANGED <<turn_files, hook, knowledge, handlerVars, exceptSessionEnd>>

\* distill: the loop over the extracted entries, one upsert_knowledge call each.
RECURSIVE UpsertAll(_, _)
UpsertAll(rows, entries) ==
    IF entries = <<>> THEN rows
    ELSE UpsertAll(upsert_knowledge(rows, Head(entries).category, Head(entries).subject,
                                    Head(entries).content,
                                    clamp_confidence(Head(entries).confidence)),
                   Tail(entries))

\* handle_end, step 1: distill::distill_session_smart(&db, &session_id), run by
\* the hook itself; a session without turns yields no entry.
SessionEndDistill(sid, entries) ==
    /\ handler.pc = "idle"
    /\ sid \in sessions \ ended_at
    /\ TurnsOf(turns, sid) = {} => entries = <<>>
    /\ Len(UpsertAll(knowledge, entries)) <= MaxKnowledge
    /\ knowledge' = UpsertAll(knowledge, entries)
    /\ handler' = [IdleHandler EXCEPT !.pc = "distilled", !.command = "session-end",
                                      !.session_id = sid, !.distilled = 1]
    /\ UNCHANGED <<turnVars, ended_at, present, mtime, last_indexed, now,
                   exceptSessionEnd>>

\* handle_end, step 2: generate_session_summary, then conversation::end_session
\* (UPDATE sessions SET ended_at = datetime('now'), summary = ?2 WHERE id = ?1).
SessionEndMark ==
    /\ handler.pc = "distilled"
    /\ ended_at' = ended_at \cup ({handler.session_id} \cap sessions)
    /\ handler' = IdleHandler
    /\ UNCHANGED <<turnVars, knowVars, present, mtime, last_indexed, now,
                   exceptSessionEnd>>

InitSessionEnd == HandlersIdle /\ IdleExceptHandlers

NextSessionEnd ==
    \/ \E sid \in SessionIds : UserPrompt(sid)
    \/ \E sid \in SessionIds, entries \in LlmResponses : SessionEndDistill(sid, entries)
    \/ SessionEndMark

SpecSessionEnd == InitSessionEnd /\ [][NextSessionEnd]_vars

\* The tasks of a type that are waiting in the queue.
PendingOfType(tasks, type) ==
    {i \in PendingIds(tasks) : tasks[i].task_type = type}

\* C24: the SessionEnd handler enqueues a shutdown task and a distill_session task
\* for the session, runs no distillation inside the hook, and sets the session's
\* ended_at.
C24_SessionEndEnqueues ==
    [][SessionEndMark =>
          /\ PendingOfType(background_tasks', "shutdown") # {}
          /\ PendingOfType(background_tasks', "distill_session") # {}
          /\ handler.distilled = 0
          /\ handler.session_id \in ended_at']_vars

(***************************************************************************)
(* hooks/compact.rs: handle, the PreCompact hook, with indexer/code.rs     *)
(* stale_files.  Times are whole seconds, as datetime('now') and the       *)
(* "%Y-%m-%d %H:%M:%S" format of the modification time make them.          *)
(***************************************************************************)
\* The walk of the project directory, in the order it yields the source files.
SourcePathList == <<"/a.rs", "/b.rs">>

\* SELECT DISTINCT file_path, MAX(last_indexed) FROM symbols GROUP BY file_path
IndexedPaths(rows) ==
    SelectSeq(SourcePathList, LAMBDA path : RowsOfFile(rows, path) # <<>>)

\* A stale_files that would drop the rows of the files it finds deleted.
StaleAndPrune(rows, indexed_at, files, modified) ==
    [stale |-> SelectSeq(IndexedPaths(rows), LAMBDA path : path \notin files),
     rows |-> SelectSeq(rows, LAMBDA r : r.file_path \in files)]

\* stale_files: the indexed files that are gone or modified after their
\* last_indexed, then the files of the walk that have no row; the statement it
\* runs is a SELECT, which leaves the table as it is.
stale_files(rows, indexed_at, files, modified) ==
    [stale |-> SelectSeq(IndexedPaths(rows),
                         LAMBDA path : \/ path \notin files
                                       \/ modified[path] > indexed_at[path])
               \o SelectSeq(SourcePathList,
                            LAMBDA path : /\ path \in files
                                          /\ RowsOfFile(rows, path) = <<>>),
     rows |-> rows]

\* index_file for one caller at a time: the DELETE, then one INSERT per symbol.
RECURSIVE index_file(_, _, _)
index_file(rows, path, extracted) ==
    IF extracted = <<>> THEN delete_symbols(rows, path)
    ELSE insert_symbol(index_file(rows, path, SubSeq(extracted, 1, Len(extracted) - 1)),
                       path, extracted[Len(extracted)])

\* The user saves a source file, new or existing.
SaveSource(path) ==
    /\ handler.pc = "idle"
    /\ \E v \in Versions[path] : disk' = [disk EXCEPT ![path] = v]
    /\ present' = present \cup {path}
    /\ mtime' = [mtime EXCEPT ![path] = now]
    /\ UNCHANGED <<symbols, indexer, index_runs, turnVars, handler, ended_at,
                   last_indexed, now, exceptPreCompact>>

\* The user deletes a source file.
DeleteSource(path) ==
    /\ handler.pc = "idle"
    /\ path \in present
    /\ present' = present \ {path}
    /\ UNCHANGED <<symVars, turnVars, handler, ended_at, mtime, last_indexed, now,
                   exceptPreCompact>>

\* A second passes.
Tick ==
    /\ now < MaxClock
    /\ now' = now + 1
    /\ UNCHANGED <<symVars, turnVars, handler, ended_at, present, mtime,
                   last_indexed, exceptPreCompact>>

\* handle, step 1: let stale = code::stale_files(&db, project_path)?
PreCompactStale(sid) ==
    /\ handler.pc = "idle"
    /\ sid \in sessions
    /\ LET r == stale_files(symbols, last_indexed, present, mtime)
       IN  /\ symbols' = r.rows
           /\ handler' = [IdleHandler EXCEPT !.pc = "stale", !.command = "pre-compact",
                                             !.session_id = sid, !.stale = r.stale]
    /\ UNCHANGED <<disk, indexer, index_runs, turnVars, ended_at, present, mtime,
                   last_indexed, now, exceptPreCompact>>

\* handle, step 1: one round of the loop over the stale files, run by the hook:
\* code::reindex_file for a file that exists, a DELETE FROM symbols for one that
\* does not.
PreCompactReindex ==
    /\ handler.pc = "stale"
    /\ handler.stale # <<>>
    /\ LET path == Head(handler.stale)
       IN  IF path \in present
           THEN /\ symbols' = index_file(symbols, path, disk[path])
                /\ last_indexed' = [last_indexed EXCEPT ![path] = now]
           ELSE /\ symbols' = delete_symbols(symbols, path)
                /\ UNCHANGED last_indexed
    /\ handler' = [handler EXCEPT !.stale = Tail(handler.stale)]
    /\ UNCHANGED <<disk, indexer, index_runs, turnVars, ended_at, present, mtime,
                   now, exceptPreCompact>>

\* handle, step 2: generate_checkpoint_summary.  It returns at once for a session
\* without turns; otherwise it builds the summary and calls index_turn while its
\* own guard of db.conn() is alive, and next_turn_number's db.conn() on the same
\* thread does not return: no checkpoint turn is inserted.
PreCompactCheckpoint ==
    /\ handler.pc = "stale"
    /\ handler.stale = <<>>
    /\ handler' = IF TurnsOf(turns, handler.session_id) = {}
                  THEN IdleHandler
                  ELSE [handler EXCEPT !.pc = "blocked"]
    /\ UNCHANGED <<symVars, turnVars, ended_at, present, mtime, last_indexed, now,
                   exceptPreCompact>>

\* The hook process that does not return is killed.
HandlerKilled ==
    /\ handler.pc = "blocked"
    /\ handler' = IdleHandler
    /\ UNCHANGED <<symVars, turnVars, ended_at, present, mtime, last_indexed, now,
                   exceptPreCompact>>

InitPreCompact == HandlersIdle /\ IdleExceptHandlers

\* The session whose context is about to be compacted.
CompactSessions == {"S"}

NextPreCompact ==
    \/ \E sid \in CompactSessions : UserPrompt(sid)
    \/ \E path \in SourcePaths : SaveSource(path)
    \/ \E path \in SourcePaths : DeleteSource(path)
    \/ Tick
    \/ \E sid \in CompactSessions : PreCompactStale(sid)
    \/ PreCompactReindex
    \/ PreCompactCheckpoint
    \/ HandlerKilled

SpecPreCompact == InitPreCompact /\ [][NextPreCompact]_vars

\* C25: the PreCompact handler does not reindex stale files itself; it writes the
\* checkpoint turn of a session that has turns and enqueues a reindex_stale task.
C25_CompactDefersReindex ==
    [][/\ PreCompactReindex => UNCHANGED <<symbols, last_indexed>>
       /\ PreCompactCheckpoint =>
             /\ PendingOfType(background_tasks', "reindex_stale") # {}
             /\ TurnsOf(turns, handler.session_id) # {} =>
                   \E i \in TurnsOf(turns', handler.session_id) :
                       turns'[i].turn_type = "checkpoint"]_vars

\* C30: stale_files changes nothing in the store: the symbols table and every
\* other table are the same before and after the call, whatever files are
\* modified, new or deleted on disk.
C30_StaleFilesReadOnly ==
    [][\A sid \in SessionIds : PreCompactStale(sid) =>
          UNCHANGED <<symbols, last_indexed, background_tasks, task_seq, sessions,
                      ended_at, turns, turn_files, knowledge, turn_text, turns_fts,
                      file_hashes>>]_vars

\* C30 witness: stale_files has returned a deleted file and a modified one.
C30_Witness ==
    /\ handler.pc = "stale"
    /\ Len(handler.stale) = 2
    /\ \E i, j \in 1..2 :
          /\ handler.stale[i] \notin present
          /\ handler.stale[j] \in present
          /\ mtime[handler.stale[j]] > last_indexed[handler.stale[j]]

(***************************************************************************)
(* indexer/distill.rs: upsert_knowledge again, with room for chains of     *)
(* superseded entries: the calls a heuristic distillation makes, one after *)
(* the other.                                                              *)
(***************************************************************************)
InitChains == KnowledgeIdle /\ IdleExceptKnowledge

\* distill_session: one upsert_knowledge call with the confidence 0.7.
ChainUpsert(key, content) ==
    /\ LET rows == upsert_knowledge(knowledge, key.category, key.subject, content, 700)
       IN  /\ Len(rows) <= MaxChain
           /\ knowledge' = rows
    /\ UNCHANGED exceptKnowledge

NextChains == \E key \in KnowledgeKeys, content \in Contents : ChainUpsert(key, content)

SpecChains == InitChains /\ [][NextChains]_vars

\* C26: the superseded_by links form linear chains without cycles.  A link always
\* points to a strictly larger id and no two entries point to the same one; a link
\* is only set on an entry that had none, to the id of the row inserted in the
\* same upsert, and is never changed afterwards.
C26_SupersededChains ==
    /\ [](\A i \in DOMAIN knowledge :
            knowledge[i].superseded_by # 0 =>
               /\ knowledge[i].superseded_by > i
               /\ knowledge[i].superseded_by \in DOMAIN knowledge
               /\ \A j \in DOMAIN knowledge \ {i} :
                     knowledge[j].superseded_by # knowledge[i].superseded_by)
    /\ [][\A i \in DOMAIN knowledge :
            IF knowledge[i].superseded_by # 0
            THEN knowledge'[i].superseded_by = knowledge[i].superseded_by
            ELSE knowledge'[i].superseded_by # 0 =>
                    /\ Len(knowledge') = Len(knowledge) + 1
                    /\ knowledge'[i].superseded_by = Len(knowledge')]_vars

\* C26 witness: a chain of two links; the first entry was superseded by the
\* second, which was superseded by the third.
C26_Witness ==
    /\ Len(knowledge) = 3
    /\ knowledge[1].superseded_by = 2
    /\ knowledge[2].superseded_by = 3
    /\ knowledge[3].superseded_by = 0

\* C33: after any sequence of upsert_knowledge calls made one after the other,
\* every (category, subject) has at most one entry whose superseded_by is NULL.
C33_OneActivePerKey ==
    \A key \in KnowledgeKeys :
        Cardinality(ActiveIds(knowledge, key.category, key.subject)) <= 1

\* C33 witness: one key whose first entry was superseded and whose second is
\* active, next to an active entry of another key.
C33_Witness ==
    \E key, other \in KnowledgeKeys :
        /\ key # other
        /\ Cardinality(ActiveIds(knowledge, key.category, key.subject)) = 1
        /\ Cardinality(ActiveIds(knowledge, other.category, other.subject)) = 1
        /\ \E i \in DOMAIN knowledge :
              /\ knowledge[i].category = key.category
              /\ knowledge[i].subject = key.subject
              /\ knowledge[i].superseded_by # 0

(***************************************************************************)
(* The paths that read the knowledge table: db/search.rs search_knowledge  *)
(* (server.rs memory_decisions, hooks/pre_tool_use.rs                      *)
(* build_explore_briefing) and the knowledge section of                    *)
(* inject/mod.rs build_startup_context.  knowledge_fts holds subject and   *)
(* content of every row: its triggers fire on INSERT, and upsert_knowledge *)
(* updates neither column.                                                 *)
(***************************************************************************)
RetrievalKeys ==
    { [category |-> "decision", subject |-> "database"],
      [category |-> "convention", subject |-> "database"] }

\* The confidence of the entries: 0.9 (distill.rs:287).
RetrievalConfidences == {900}

\* What the entries say: the second contradicts the first.
RetrievalContents ==
    { {"uses", "sqlite", "local", "storage"},
      {"postgres", "replica", "over", "sqlite"} }

Keywords == {"sqlite", "postgres", "cache"}

\* A condition that would let every row through.
AnyRow(row) == TRUE

\* superseded_by IS NULL
IsActive(row) == row.superseded_by = 0

\* The terms knowledge_fts holds for a row.
KnowledgeTerms(row) == {Stem(w) : w \in row.content \cup {row.subject}}

\* The rows search_knowledge's WHERE clause lets through: knowledge_fts MATCH ?1
\* AND k.category = ?2 (when given) AND k.superseded_by IS NULL.
KnowledgeMatches(rows, query, categories) ==
    {i \in DOMAIN rows : /\ Stem(query) \in KnowledgeTerms(rows[i])
                         /\ rows[i].category \in categories
                         /\ IsActive(rows[i])}

\* ORDER BY fts.rank LIMIT n: the sets of n best rows, whatever the ranks are.
LimitChoices(ids, n) ==
    {chosen \in SUBSET ids : Cardinality(chosen) = Min(n, Cardinality(ids))}

\* build_startup_context: SELECT ... WHERE category = ?1 AND superseded_by IS NULL
\* AND confidence > 0.5 ... LIMIT 10, for each of the six categories.
StartupKnowledgeIds(rows) ==
    {i \in DOMAIN rows : /\ rows[i].category \in Range(knowledge_categories)
                         /\ IsActive(rows[i])
                         /\ rows[i].confidence > 500}

\* distill: one upsert_knowledge call.
RetrievalUpsert(key, content, confidence) ==
    /\ LET rows == upsert_knowledge(knowledge, key.category, key.subject,
                                    content, confidence)
       IN  /\ Len(rows) <= MaxChain
           /\ knowledge' = rows
    /\ retrieved' = NothingRetrieved
    /\ UNCHANGED exceptRetrievalAndKnowledge

\* memory_decisions: search_knowledge(&conn, &params.query, limit, Some("decision"))
DecisionsKnowledge(query, limit) ==
    /\ \E chosen \in LimitChoices(KnowledgeMatches(knowledge, query, {"decision"}), limit) :
          retrieved' = [path |-> "memory_decisions", ids |-> chosen]
    /\ UNCHANGED <<knowVars, exceptRetrieval>>

\* build_startup_context: the knowledge section; the budget may cut it short.
StartupKnowledge ==
    /\ \E chosen \in SUBSET StartupKnowledgeIds(knowledge) :
          retrieved' = [path |-> "startup", ids |-> chosen]
    /\ UNCHANGED <<knowVars, exceptRetrieval>>

\* build_explore_briefing: search_knowledge(&conn, kw, 3, None) for each of the
\* keywords (two here, or one when they are equal), the results united.
ExploreBriefing(kw1, kw2) ==
    /\ \E c1 \in LimitChoices(KnowledgeMatches(knowledge, kw1, {"decision", "convention"}), 3),
          c2 \in LimitChoices(KnowledgeMatches(knowledge, kw2, {"decision", "convention"}), 3) :
          retrieved' = [path |-> "explore", ids |-> c1 \cup c2]
    /\ UNCHANGED <<knowVars, exceptRetrieval>>

InitRetrieval == RetrievalIdle /\ IdleExceptRetrieval

NextRetrieval ==
    \/ \E key \in RetrievalKeys, content \in RetrievalContents,
          confidence \in RetrievalConfidences : RetrievalUpsert(key, content, confidence)
    \/ \E query \in Keywords, limit \in {1, 10} : DecisionsKnowledge(query, limit)
    \/ StartupKnowledge
    \/ \E kw1, kw2 \in Keywords : ExploreBriefing(kw1, kw2)

SpecRetrieval == InitRetrieval /\ [][NextRetrieval]_vars

\* C27: no retrieval path (memory_decisions, the knowledge section of the startup
\* context, the Explore briefing) returns a knowledge entry whose superseded_by is
\* set.
C27_SupersededHidden ==
    \A i \in retrieved.ids : knowledge[i].superseded_by = 0

\* C27 witness: a search returned the current entry of a key while the entry it
\* superseded holds the word searched for as well.
C27_Witness ==
    /\ retrieved.path \in {"memory_decisions", "explore"}
    /\ \E i \in retrieved.ids, j \in DOMAIN knowledge :
          /\ knowledge[j].superseded_by = i
          /\ "sqlite" \in KnowledgeTerms(knowledge[i]) \cap KnowledgeTerms(knowledge[j])

(***************************************************************************)
(* main.rs: run_server from Db::open to the spawn of the task poller.  A   *)
(* step either succeeds or returns Err; `?` hands the Err to main, which   *)
(* ends the process, a match arm with tracing::warn! goes on.              *)
(***************************************************************************)
\* A step applied with `?`: its Err ends run_server.
Propagate(b, step, next, ok) ==
    IF ok THEN [b EXCEPT !.pc = next]
    ELSE [b EXCEPT !.pc = "exited", !.fatal = step]

\* A step whose Err arm only logs a warning.
WarnAndGoOn(b, step, next, ok) ==
    IF ok THEN [b EXCEPT !.pc = next]
    ELSE [b EXCEPT !.pc = next, !.warned = @ \cup {step}]

\* let db = db::Db::open(&project_dir)?;
StartOpen(s, ok) ==
    /\ boot[s].pc = "start"
    /\ boot' = [boot EXCEPT ![s] = Propagate(boot[s], "open", "opened", ok)]
    /\ UNCHANGED exceptStartup

\* db::tasks::clear_shutdown_tasks(&db)?;
StartClearShutdown(s, ok) ==
    /\ boot[s].pc = "opened"
    /\ boot' = [boot EXCEPT ![s] =
                   Propagate(boot[s], "clear_shutdown_tasks", "cleared", ok)]
    /\ UNCHANGED exceptStartup

\* match db::tasks::recover_stuck_tasks(&db) { ... Err(e) => tracing::warn!(..) }
StartRecover(s, ok) ==
    /\ boot[s].pc = "cleared"
    /\ boot' = [boot EXCEPT ![s] =
                   WarnAndGoOn(boot[s], "recover_stuck_tasks", "recovered", ok)]
    /\ UNCHANGED exceptStartup

\* if !indexer::code::has_index(&db)? { ... }: with an index the scan is skipped.
StartHasIndex(s, ok, indexed) ==
    /\ boot[s].pc = "recovered"
    /\ boot' = [boot EXCEPT ![s] =
                   Propagate(boot[s], "has_index",
                             IF indexed THEN "indexed" ELSE "scanning", ok)]
    /\ UNCHANGED exceptStartup

\* match indexer::code::index_project(..) { ... Err(e) => tracing::warn!(..) }
StartIndexProject(s, ok) ==
    /\ boot[s].pc = "scanning"
    /\ boot' = [boot EXCEPT ![s] =
                   WarnAndGoOn(boot[s], "index_project", "indexed", ok)]
    /\ UNCHANGED exceptStartup

\* match watcher::start_watcher(..) { ... Err(e) => { tracing::warn!(..); None } },
\* then tokio::spawn(run_task_poller(..)).
StartWatcher(s, ok) ==
    /\ boot[s].pc = "indexed"
    /\ boot' = [boot EXCEPT ![s] =
                   WarnAndGoOn(boot[s], "start_watcher", "running", ok)]
    /\ UNCHANGED exceptStartup

InitStartup == StartupIdle /\ IdleExceptStartup

NextStartup ==
    \/ \E s \in Servers, ok \in BOOLEAN : StartOpen(s, ok)
    \/ \E s \in Servers, ok \in BOOLEAN : StartClearShutdown(s, ok)
    \/ \E s \in Servers, ok \in BOOLEAN : StartRecover(s, ok)
    \/ \E s \in Servers, ok, indexed \in BOOLEAN : StartHasIndex(s, ok, indexed)
    \/ \E s \in Servers, ok \in BOOLEAN : StartIndexProject(s, ok)
    \/ \E s \in Servers, ok \in BOOLEAN : StartWatcher(s, ok)

SpecStartup == InitStartup /\ [][NextStartup]_vars

\* C31: in the server only a failure to open the store is fatal: when clearing
\* the leftover shutdown tasks, recovering stuck tasks, checking for the index,
\* building it or starting the watcher fails, run_server goes on and the server
\* keeps running.
C31_OnlyOpenIsFatal ==
    \A s \in Servers : boot[s].pc = "exited" => boot[s].fatal = "open"

(***************************************************************************)
(* db/mod.rs: Db::conn is self.conn.lock() on a std::sync::Mutex, whose    *)
(* lock does not return in a thread that already holds the guard.          *)
(***************************************************************************)
\* C32: no thread acquires the connection mutex while it holds it, so the store
\* operations that take it run to completion: every files::catchup call that
\* detected changes returns (as do the context builders and the checkpoint
\* builder).
C32_NoSelfLock ==
    \A i \in DOMAIN catchup_log : catchup_log[i].returned

\* C34: a hash catch-up run that detected a changed, added or deleted file has
\* written exactly one file_catchup turn and has left the stored hashes equal
\* to the hashes of the files it walked (no entry for a deleted file), so that
\* the run that follows it with no change in between reports zero changes and
\* writes no turn.
C34_CatchupStoresHashes ==
    \A i \in DOMAIN catchup_log :
        catchup_log[i].stats # NoChanges =>
            /\ catchup_log[i].turn_id \in DOMAIN turns
            /\ turns[catchup_log[i].turn_id].turn_type = "file_catchup"
            /\ \A j \in DOMAIN catchup_log :
                  j # i => catchup_log[j].turn_id # catchup_log[i].turn_id
            /\ catchup_log[i].stored = walk_and_hash(catchup_log[i].walked)
            /\ (i + 1 \in DOMAIN catchup_log
                  /\ catchup_log[i + 1].walked = catchup_log[i].walked) =>
                   /\ catchup_log[i + 1].stats = NoChanges
                   /\ catchup_log[i + 1].turn_id = 0

(***************************************************************************)
(* indexer/git.rs: catchup, as handle_start calls it.  Commits are numbers; *)
(* 0 is the empty answer of a directory that is no repository.             *)
(***************************************************************************)
MaxCommits == 3
Commits == 1..MaxCommits

\* How the index_turn call of catchup can end: Ok, an Err of its INSERT INTO
\* turns, or an Err of its INSERT INTO turn_files after the turn was inserted.
IndexTurnOutcomes == {"ok", "err_turn", "err_turn_file"}

\* A catch-up that would store HEAD whether or not the turn was written.
AdvanceAlways(last, head, written) == head

\* catchup: the last_commit_hash of git_state when it returns.  store_commit runs
\* on the first run, and after index_turn returned Ok; `?` returns before it
\* when index_turn returned Err.
commit_after_catchup(last, head, written) ==
    IF head = 0 THEN last
    ELSE IF last = 0 THEN head
    ELSE IF head = last THEN last
    ELSE IF written THEN head ELSE last

\* The user commits, checks out another commit, or removes the repository.
MoveHead(c) ==
    /\ c # git_head
    /\ git_head' = c
    /\ UNCHANGED <<git_state, git_run, turnVars, exceptGitAndTurns>>

\* handle_start: ensure_session, then git::catchup(&db, project_dir, &session_id).
GitCatchup(sid, outcome) ==
    /\ Len(turns) < MaxTurns
    /\ sessions' = sessions \cup {sid}
    /\ LET changes == git_head # 0 /\ git_state # 0 /\ git_head # git_state
           turn_id == Len(turns) + 1
       IN  /\ turns' = IF changes /\ outcome # "err_turn"
                       THEN Append(turns, [session_id |-> sid,
                                           turn_number |-> next_turn_number(turns, sid),
                                           turn_type |-> "git_catchup"])
                       ELSE turns
           /\ turn_files' = IF changes /\ outcome = "ok"
                            THEN insert_turn_file(turn_files, turn_id, "src/lib.rs",
                                                  "git_change")
                            ELSE turn_files
           /\ git_state' = commit_after_catchup(git_state, git_head, outcome = "ok")
           /\ git_run' = [head |-> git_head, last |-> git_state,
                          index_turn |-> IF changes THEN outcome ELSE "none",
                          turn_id |-> IF changes /\ outcome # "err_turn"
                                      THEN turn_id ELSE 0]
    /\ UNCHANGED <<git_head, hook, exceptGitAndTurns>>

InitGit == GitIdle /\ IdleExceptGit

NextGit ==
    \/ \E c \in Commits \cup {0} : MoveHead(c)
    \/ \E sid \in SessionIds, outcome \in IndexTurnOutcomes : GitCatchup(sid, outcome)

SpecGit == InitGit /\ [][NextGit]_vars

\* C35: git::catchup writes a git_catchup turn exactly when a stored commit
\* exists and differs from HEAD.  On the first run it only stores HEAD; when
\* the stored commit equals HEAD it changes nothing.  The stored commit moves to
\* HEAD only after the turn was written: when index_turn fails, it is unchanged.
C35_GitCatchup ==
    [][\A sid \in SessionIds, outcome \in IndexTurnOutcomes :
          (git_head # 0 /\ GitCatchup(sid, outcome)) =>
              LET wrote == /\ Len(turns') = Len(turns) + 1
                           /\ turns'[Len(turns')].turn_type = "git_catchup"
                           /\ turns'[Len(turns')].session_id = sid
              IN  /\ ~wrote => turns' = turns
                  /\ wrote => git_state # 0 /\ git_state # git_head
                  /\ (git_state # 0 /\ git_state # git_head /\ outcome = "ok") => wrote
                  /\ git_state = 0 => git_state' = git_head /\ turns' = turns
                  /\ git_state = git_head => git_state' = git_state /\ turns' = turns
                  /\ (git_state # 0 /\ git_state # git_head) =>
                        git_state' = IF outcome = "ok" THEN git_head ELSE git_state
                  /\ (git_state # 0 /\ git_state' # git_state) =>
                        /\ wrote
                        /\ \E f \in turn_files' : f.turn_id = Len(turns')]_vars

\* C35 witness: after a first run that stored a commit and a run that wrote the
\* turn of the commits since, a run whose index_turn failed left the stored
\* commit where it was, behind HEAD.
C35_Witness ==
    /\ git_run.index_turn = "err_turn"
    /\ git_run.last = git_state
    /\ git_state # 0
    /\ git_head # git_state
    /\ \E i \in DOMAIN turns : turns[i].turn_type = "git_catchup"

(***************************************************************************)
(* watcher.rs: the thread running process_events on the channel that       *)
(* notify sends its events to.                                             *)
(***************************************************************************)
WatchedPaths == SourcePaths \cup {"/target/c.rs", "/notes.txt"}
EventKinds == {"create", "modify", "remove", "access"}

\* path.extension()
Extension(path) == IF path = "/notes.txt" THEN "txt" ELSE "rs"

\* Lang::from_extension(ext).is_some()
from_extension(ext) ==
    ext \in {"rs", "py", "pyi", "ts", "mts", "cts", "tsx", "js", "mjs", "cjs", "jsx",
             "go", "c", "h", "cpp", "cc", "cxx", "hpp", "hh", "hxx"}

skip_dirs ==
    {"node_modules", "target", "dist", "build", ".git", "__pycache__", "vendor",
     ".venv", "venv"}

\* The directories a path lies in.
DirsOf(path) == IF path = "/target/c.rs" THEN {"target"} ELSE {}

\* should_skip_path: the path contains "/<dir>/" for one of skip_dirs
should_skip_path(path) == DirsOf(path) \cap skip_dirs # {}

\* collect_changed_files: pending_files after the event.
collect_changed_files(event, pending) ==
    IF /\ event.kind \in {"create", "modify", "remove"}
       /\ from_extension(Extension(event.path))
       /\ ~should_skip_path(event.path)
    THEN pending \cup {event.path}
    ELSE pending

\* The events the watcher is to act on: a creation, change or removal of a
\* source file outside the skipped directories.
Accepted(event) ==
    event.kind \in {"create", "modify", "remove"} /\ event.path \in SourcePaths

\* The orders in which pending_files.drain() can yield the files of a HashSet.
Orders(S) == {q \in [1..Cardinality(S) -> S] : \A p \in S : \E i \in DOMAIN q : q[i] = p}

\* The file system changes and notify sends the event.  Once the receiver is
\* gone the send fails and the event is dropped.
FsEvent(kind, path) ==
    /\ events_sent < MaxEvents
    /\ events_sent' = events_sent + 1
    /\ kind = "create" => path \notin present
    /\ kind \in {"modify", "remove", "access"} => path \in present \cup (WatchedPaths \ SourcePaths)
    /\ present' = IF path \notin SourcePaths THEN present
                  ELSE IF kind = "create" THEN present \cup {path}
                  ELSE IF kind = "remove" THEN present \ {path}
                  ELSE present
    /\ channel' = IF watch.pc = "dead" THEN channel
                  ELSE Append(channel, [kind |-> kind, path |-> path])
    /\ owed' = IF Accepted([kind |-> kind, path |-> path]) THEN owed \cup {path} ELSE owed
    /\ UNCHANGED <<pending_files, watch, batch, handler, ended_at, mtime, last_indexed,
                   now, exceptWatcherAndHandlers>>

\* process_events: rx.recv() returns the first event of a batch.
WatcherRecv ==
    /\ watch.pc = "recv"
    /\ channel # <<>>
    /\ pending_files' = collect_changed_files(Head(channel), pending_files)
    /\ channel' = Tail(channel)
    /\ watch' = [watch EXCEPT !.pc = "drain"]
    /\ batch' = <<>>
    /\ UNCHANGED <<owed, events_sent, handlerVars, exceptWatcherAndHandlers>>

\* process_events: rx.recv_timeout(debounce_duration) returns an event.
WatcherDrain ==
    /\ watch.pc = "drain"
    /\ channel # <<>>
    /\ pending_files' = collect_changed_files(Head(channel), pending_files)
    /\ channel' = Tail(channel)
    /\ UNCHANGED <<watch, batch, owed, events_sent, handlerVars, exceptWatcherAndHandlers>>

\* process_events: recv_timeout times out, which it only does on an empty
\* channel; pending_files is drained into the files of the batch.
WatcherTimeout ==
    /\ watch.pc = "drain"
    /\ channel = <<>>
    /\ \E order \in Orders(pending_files) :
          watch' = IF pending_files = {} THEN [pc |-> "recv", files |-> <<>>]
                   ELSE [pc |-> "process", files |-> order]
    /\ pending_files' = {}
    /\ UNCHANGED <<channel, batch, owed, events_sent, handlerVars,
                   exceptWatcherAndHandlers>>

\* How code::reindex_file can end: Ok, Err (logged), or a panic of
\* extract_symbols, which slices a signature of more than 200 bytes at byte 200.
ReindexOutcomes == {"ok", "err", "panic"}

\* process_events: one round of the loop over the files of the batch.  A file
\* that no longer exists has its symbols deleted; nothing catches a panic of
\* reindex_file, which ends the thread and drops the receiver.
WatcherProcess(outcome) ==
    /\ watch.pc = "process"
    /\ LET file_path == Head(watch.files)
           exists == file_path \in present
       IN  IF exists /\ outcome = "panic"
           THEN /\ watch' = [pc |-> "dead", files |-> <<>>]
                /\ channel' = <<>>
                /\ owed' = owed \ {file_path}
                /\ UNCHANGED batch
           ELSE /\ batch' = Append(batch, [path |-> file_path,
                                           op |-> IF exists THEN "reindex" ELSE "purge"])
                /\ owed' = owed \ {file_path}
                /\ watch' = IF Tail(watch.files) = <<>>
                            THEN [pc |-> "recv", files |-> <<>>]
                            ELSE [watch EXCEPT !.files = Tail(watch.files)]
                /\ UNCHANGED channel
    /\ UNCHANGED <<pending_files, events_sent, handlerVars, exceptWatcherAndHandlers>>

InitWatcher == WatcherIdle /\ IdleExceptWatcher

NextWatcher ==
    \/ \E kind \in EventKinds, path \in WatchedPaths : FsEvent(kind, path)
    \/ WatcherRecv
    \/ WatcherDrain
    \/ WatcherTimeout
    \/ \E outcome \in ReindexOutcomes : WatcherProcess(outcome)

SpecWatcher == InitWatcher /\ [][NextWatcher]_vars

\* The paths of the events waiting in the channel that the watcher acts on.
PathsInChannel == {channel[i].path : i \in {j \in DOMAIN channel : Accepted(channel[j])}}

\* C37: the events of one debounce window make one batch, in which each
\* distinct changed source file outside the skipped directories is handled
\* exactly once (reindexed, or its symbols purged when it no longer exists) and
\* no other path is handled; no accepted event is lost: the path of each one is
\* waiting in the channel, in pending_files or among the files of the batch
\* still to handle, until a handling that follows the event.
C37_WatcherBatches ==
    /\ \A i, j \in DOMAIN batch : batch[i].path = batch[j].path => i = j
    /\ \A i \in DOMAIN batch : batch[i].path \in SourcePaths
    /\ \A p \in owed :
          \/ p \in PathsInChannel
          \/ p \in pending_files
          \/ \E i \in DOMAIN watch.files : watch.files[i] = p

(***************************************************************************)
(* main.rs: run_task_poller with its executors, and db/tasks.rs:           *)
(* prune_old_tasks.  The rows carry the columns payload and completed_at   *)
(* as well (NULL: <<>> for the payload, -1 for the time); the clock moves  *)
(* by the hour.                                                            *)
(***************************************************************************)
HOUR == 3600

\* What a process may enqueue: the three task types and one that the server
\* does not know; a distill_session task with or without its session id.
TaskRequests ==
    {[task_type |-> "reindex_stale", payload |-> <<>>],
     [task_type |-> "distill_session", payload |-> <<"S">>],
     [task_type |-> "distill_session", payload |-> <<>>],
     [task_type |-> "shutdown", payload |-> <<>>],
     [task_type |-> "vacuum", payload |-> <<>>]}

\* complete_task and fail_task: completed_at = datetime('now')
SetCompletedAt(tasks, id, t) ==
    [i \in DOMAIN tasks |-> IF i = id THEN [tasks[i] EXCEPT !.completed_at = t] ELSE tasks[i]]

\* A prune that would go by completed_at alone, a NULL counting as oldest.
PruneAnyStatus(tasks, t, max_age_secs) ==
    [i \in {j \in DOMAIN tasks : ~(tasks[j].completed_at < t - max_age_secs)} |-> tasks[i]]

\* DELETE FROM background_tasks WHERE status IN ('completed', 'failed')
\* AND completed_at < datetime('now', '-<max_age_secs> seconds')
prune_old_tasks(tasks, t, max_age_secs) ==
    [i \in {j \in DOMAIN tasks :
               ~(/\ tasks[j].status \in {"completed", "failed"}
                 /\ tasks[j].completed_at # -1
                 /\ tasks[j].completed_at < t - max_age_secs)} |-> tasks[i]]

\* An executor that would fail the task when one of its files failed.
FailOnAnyFile(scan_ok, files_ok) == IF scan_ok /\ files_ok THEN "completed" ELSE "failed"

\* execute_reindex_stale: the status it gives the task.  An Err of stale_files
\* fails it; an Err of reindex_file on one file is counted and logged.
reindex_stale_status(scan_ok, files_ok) == IF scan_ok THEN "completed" ELSE "failed"

\* execute_distill_session: the status it gives the task.  Without a payload it
\* fails; an Err of the distillation or of the summary is logged.
distill_session_status(payload) == IF payload = <<>> THEN "failed" ELSE "completed"

\* The UPDATE of complete_task or fail_task at time t.
Finalize(tasks, id, status, t) ==
    SetCompletedAt(IF status = "completed" THEN complete_task(tasks, id)
                   ELSE fail_task(tasks, id), id, t)

\* Any process: enqueue_task(db, task_type, project_dir, payload).
EnqueueRequest(request) ==
    /\ task_seq < MaxTasks
    /\ LET id == task_seq + 1
           rows == enqueue_task(background_tasks, task_seq, request.task_type)
       IN  background_tasks' =
               [i \in DOMAIN rows |->
                   IF i = id
                   THEN [task_type |-> rows[i].task_type, status |-> rows[i].status,
                         started_at |-> rows[i].started_at, payload |-> request.payload,
                         completed_at |-> -1]
                   ELSE rows[i]]
    /\ task_seq' = task_seq + 1
    /\ UNCHANGED <<server, held, returned, claimed, exceptTasks>>

\* An hour passes.
HourPasses ==
    /\ now < MaxClock * HOUR
    /\ now' = now + HOUR
    /\ UNCHANGED <<taskVars, handler, ended_at, present, mtime, last_indexed,
                   exceptTasksAndHandlers>>

\* run_task_poller: the tick on which prune_counter reaches 100:
\* db::tasks::prune_old_tasks(&db2, 3600), before the claim of that tick.
PollPrune(s) ==
    /\ server[s] = "polling"
    /\ background_tasks' = prune_old_tasks(background_tasks, now, 3600)
    /\ UNCHANGED <<task_seq, server, held, returned, claimed, exceptTasks>>

\* The end of an executor: the task is finalized and the poller's job returns.
Finish(s, status) ==
    /\ background_tasks' = Finalize(background_tasks, held[s].id, status, now)
    /\ server' = [server EXCEPT ![s] = "polling"]
    /\ held' = [held EXCEPT ![s] = NoTask]
    /\ claimed' = [claimed EXCEPT ![s] = @ \ {held[s].id}]
    /\ UNCHANGED <<task_seq, returned, exceptTasks>>

\* run_task_poller: "shutdown" => complete_task, then std::process::exit(0).
ExecuteShutdown(s) ==
    /\ server[s] = "executing"
    /\ held[s].task_type = "shutdown"
    /\ background_tasks' = Finalize(background_tasks, held[s].id, "completed", now)
    /\ server' = [server EXCEPT ![s] = "down"]
    /\ held' = [held EXCEPT ![s] = NoTask]
    /\ claimed' = [claimed EXCEPT ![s] = {}]
    /\ UNCHANGED <<task_seq, returned, exceptTasks>>

\* run_task_poller: "reindex_stale" => execute_reindex_stale(&db2, &task, ..)
ExecuteReindexStale(s, scan_ok, files_ok) ==
    /\ server[s] = "executing"
    /\ held[s].task_type = "reindex_stale"
    /\ Finish(s, reindex_stale_status(scan_ok, files_ok))

\* run_task_poller: "distill_session" => execute_distill_session(&db2, &task)
ExecuteDistillSession(s, distill_ok, summary_ok) ==
    /\ server[s] = "executing"
    /\ held[s].task_type = "distill_session"
    /\ held[s].id \in DOMAIN background_tasks
    /\ Finish(s, distill_session_status(background_tasks[held[s].id].payload))

\* run_task_poller: other => fail_task(&db2, task.id, "Unknown task type: ..")
ExecuteUnknown(s) ==
    /\ server[s] = "executing"
    /\ held[s].task_type \notin {"shutdown", "reindex_stale", "distill_session"}
    /\ Finish(s, "failed")

\* The one server of the project; other processes only enqueue.
PollerServers == {"srv1"}

InitPoller == TasksIdle /\ IdleExceptTasks

NextPoller ==
    \/ \E request \in TaskRequests : EnqueueRequest(request)
    \/ HourPasses
    \/ \E s \in PollerServers : ServerOpen(s)
    \/ \E s \in PollerServers : ClearShutdownTasks(s)
    \/ \E s \in PollerServers : RecoverStuckTasks(s)
    \/ \E s \in PollerServers : PollPrune(s)
    \/ \E s \in PollerServers : PollClaim(s)
    \/ \E s \in PollerServers : ExecuteShutdown(s)
    \/ \E s \in PollerServers, scan_ok, files_ok \in BOOLEAN : ExecuteReindexStale(s, scan_ok, files_ok)
    \/ \E s \in PollerServers, distill_ok, summary_ok \in BOOLEAN :
          ExecuteDistillSession(s, distill_ok, summary_ok)
    \/ \E s \in PollerServers : ExecuteUnknown(s)
    \/ \E s \in PollerServers : ExecPanic(s)
    \/ \E s \in PollerServers : ServerCrash(s)

SpecPoller == InitPoller /\ [][NextPoller]_vars

\* The status of the task a poller's job holds, once the step is taken ("gone":
\* the row was deleted).
StatusAfter(s) ==
    IF held[s].id \in DOMAIN background_tasks'
    THEN background_tasks'[held[s].id].status ELSE "gone"

\* C36: every task a poller claimed whose handler returns without a panic is
\* finalized before the poller's next claim.  reindex_stale ends completed, and
\* failed only when the stale scan itself failed (a file that failed does not
\* fail the task); distill_session ends completed, and failed when the payload
\* is missing; an unknown type ends failed.  None is left running, and a claim
\* is made only with no task held.
C36_HandlersFinalize ==
    [][\A s \in PollerServers :
          /\ \A scan_ok, files_ok \in BOOLEAN :
                ExecuteReindexStale(s, scan_ok, files_ok) =>
                    /\ StatusAfter(s) = IF scan_ok THEN "completed" ELSE "failed"
                    /\ held'[s] = NoTask
          /\ \A distill_ok, summary_ok \in BOOLEAN :
                ExecuteDistillSession(s, distill_ok, summary_ok) =>
                    /\ StatusAfter(s) =
                          IF background_tasks[held[s].id].payload = <<>>
                          THEN "failed" ELSE "completed"
                    /\ held'[s] = NoTask
          /\ ExecuteUnknown(s) => StatusAfter(s) = "failed" /\ held'[s] = NoTask
          /\ (PollClaim(s) /\ held'[s] # NoTask) => held[s] = NoTask]_vars

\* C36 witness: one poller claimed and finalized two tasks, one after the
\* other: a reindex_stale task that completed and a distill_session task
\* without payload that failed.
C36_Witness ==
    /\ \E i, j \in DOMAIN background_tasks :
          /\ i < j
          /\ background_tasks[i].task_type = "reindex_stale"
          /\ background_tasks[i].status = "completed"
          /\ background_tasks[j].task_type = "distill_session"
          /\ background_tasks[j].payload = <<>>
          /\ background_tasks[j].status = "failed"
    /\ server["srv1"] = "polling"
    /\ server["srv2"] = "down"
    /\ returned = {1, 2}

\* C39: prune_old_tasks deletes only rows that are completed or failed and whose
\* completed_at is more than the given age in the past; it deletes no pending
\* and no running row, however old, and changes no row it keeps.
C39_PruneOnlyFinished ==
    [][\A s \in PollerServers : PollPrune(s) =>
          /\ \A i \in DOMAIN background_tasks' :
                i \in DOMAIN background_tasks /\ background_tasks'[i] = background_tasks[i]
          /\ \A i \in DOMAIN background_tasks \ DOMAIN background_tasks' :
                /\ background_tasks[i].status \in {"completed", "failed"}
                /\ background_tasks[i].completed_at < now - 3600
          /\ \A i \in DOMAIN background_tasks :
                background_tasks[i].status \in {"pending", "running"} =>
                    i \in DOMAIN background_tasks']_vars

\* C39 witness: the first task was left running by a server that died, the
\* second was completed by the next one, and a prune two hours later has
\* deleted the second and kept the first, the older one.
C39_Witness ==
    /\ now = 2 * HOUR
    /\ task_seq = 2
    /\ DOMAIN background_tasks = {1}
    /\ background_tasks[1].status \in {"pending", "running"}
    /\ returned = {1, 2}

(***************************************************************************)
(* update.rs: parse_semver and is_newer.  A version string is the sequence *)
(* of its characters; a parsed component is the sequence of its decimal    *)
(* digits without leading zeros, so that u32 keeps its width.              *)
(***************************************************************************)
VersionStrings ==
    { <<"0", ".", "2", ".", "0">>,
      <<"0", ".", "3", ".", "0">>,
      <<"v", "0", ".", "2", ".", "0">>,
      <<"v", "0", ".", "3", ".", "0">>,
      <<"1", ".", "0", ".", "0">>,
      <<"0", ".", "9", ".", "9">>,
      <<"0", ".", "1", "0", ".", "0">>,
      <<"0", ".", "1", ".", "0">>,
      <<"v", "1", ".", "2", ".", "3">>,
      <<"1", ".", "0">>,
      <<"a", "b", "c">>,
      <<>>,
      <<"1", ".", ".", "0">>,
      <<"1", ".", "0", ".", "0", ".", "0">>,
      <<"0", ".", "3", ".", "0", "-", "r", "c">>,
      <<"0", ".", "0", "2", ".", "0">>,
      <<"v", "v", "0", ".", "3", ".", "0">>,
      <<"+", "1", ".", "0", ".", "0">>,
      <<"4", "2", "9", "4", "9", "6", "7", "2", "9", "5", ".", "0", ".", "0">>,
      <<"4", "2", "9", "4", "9", "6", "7", "2", "9", "6", ".", "0", ".", "0">> }

DecimalDigits == {"0", "1", "2", "3", "4", "5", "6", "7", "8", "9"}

DigitOf ==
    [c \in DecimalDigits |->
        CASE c = "0" -> 0 [] c = "1" -> 1 [] c = "2" -> 2 [] c = "3" -> 3
          [] c = "4" -> 4 [] c = "5" -> 5 [] c = "6" -> 6 [] c = "7" -> 7
          [] c = "8" -> 8 [] c = "9" -> 9]

\* u32::MAX, 4294967295, digit by digit.
U32_MAX == <<4, 2, 9, 4, 9, 6, 7, 2, 9, 5>>

\* The digits of a number without its leading zeros.
RECURSIVE Canonical(_)
Canonical(digits) ==
    IF Len(digits) > 1 /\ Head(digits) = 0 THEN Canonical(Tail(digits)) ELSE digits

\* a < b for two numbers given by their digits without leading zeros.
NumLess(a, b) ==
    \/ Len(a) < Len(b)
    \/ /\ Len(a) = Len(b)
       /\ \E i \in DOMAIN a : a[i] < b[i] /\ \A j \in 1..(i - 1) : a[j] = b[j]

\* str::trim_start_matches(c): every leading c is removed.
RECURSIVE trim_start_matches(_, _)
trim_start_matches(s, c) ==
    IF s # <<>> /\ Head(s) = c THEN trim_start_matches(Tail(s), c) ELSE s

\* str::split(sep).collect(): the parts between the separators, empty ones kept.
RECURSIVE SplitFrom(_, _, _)
SplitFrom(part, rest, sep) ==
    IF rest = <<>> THEN <<part>>
    ELSE IF Head(rest) = sep
         THEN <<part>> \o SplitFrom(<<>>, Tail(rest), sep)
         ELSE SplitFrom(Append(part, Head(rest)), Tail(rest), sep)

split(s, sep) == SplitFrom(<<>>, s, sep)

\* parts[i].parse::<u32>().ok(): <<>> for None, <<n>> for Some(n).  u32::from_str
\* takes an optional '+' and then one or more decimal digits, and fails above
\* u32::MAX.
parse_u32(part) ==
    LET digits == IF part # <<>> /\ Head(part) = "+" THEN Tail(part) ELSE part
    IN  IF digits = <<>> \/ \E i \in DOMAIN digits : digits[i] \notin DecimalDigits
        THEN <<>>
        ELSE LET n == Canonical([i \in DOMAIN digits |-> DigitOf[digits[i]]])
             IN  IF NumLess(U32_MAX, n) THEN <<>> ELSE <<n>>

\* parse_semver: <<>> for None, <<(major, minor, patch)>> for Some.
parse_semver(s) ==
    LET parts == split(trim_start_matches(s, "v"), ".")
    IN  IF Len(parts) # 3 THEN <<>>
        ELSE LET parsed == [i \in 1..3 |-> parse_u32(parts[i])]
             IN  IF \E i \in 1..3 : parsed[i] = <<>> THEN <<>>
                 ELSE <<[i \in 1..3 |-> parsed[i][1]]>>

\* r > l on two tuples: the first component in which they differ decides.
RECURSIVE TupleGreater(_, _)
TupleGreater(r, l) ==
    IF r = <<>> THEN FALSE
    ELSE IF Head(r) = Head(l) THEN TupleGreater(Tail(r), Tail(l))
         ELSE NumLess(Head(l), Head(r))

\* A comparison that holds as soon as one component of remote is greater.
AnyComponentGreater(remote, local) ==
    LET r == parse_semver(remote)
        l == parse_semver(local)
    IN  /\ r # <<>> /\ l # <<>>
        /\ \E i \in 1..3 : NumLess(l[1][i], r[1][i])

is_newer(remote, local) ==
    LET r == parse_semver(remote)
        l == parse_semver(local)
    IN  IF r # <<>> /\ l # <<>> THEN TupleGreater(r[1], l[1]) ELSE FALSE

\* One call of is_newer on the two strings of the state.
CheckVersion ==
    /\ ~version_check.checked
    /\ version_check' = [version_check EXCEPT
                            !.checked = TRUE,
                            !.newer = is_newer(version_check.remote, version_check.local)]
    /\ UNCHANGED exceptUpdate

InitUpdate ==
    /\ version_check \in [remote : VersionStrings, local : VersionStrings,
                          checked : {FALSE}, newer : {FALSE}]
    /\ IdleExceptUpdate

NextUpdate == CheckVersion

SpecUpdate == InitUpdate /\ [][NextUpdate]_vars

\* The claim's reading of a version string: after one optional 'v', exactly
\* three components separated by '.', each one or more decimal digits of a
\* value that a u32 holds.
ThreeNumeric(s) ==
    LET body == IF s # <<>> /\ s[1] = "v" THEN Tail(s) ELSE s
        dots == {i \in DOMAIN body : body[i] = "."}
    IN  IF Cardinality(dots) # 2 THEN <<>>
        ELSE LET p == CHOOSE i \in dots : \A j \in dots : i <= j
                 q == CHOOSE i \in dots : \A j \in dots : i >= j
                 comps == <<SubSeq(body, 1, p - 1), SubSeq(body, p + 1, q - 1),
                            SubSeq(body, q + 1, Len(body))>>
                 numeric(c) == c # <<>> /\ \A i \in DOMAIN c : c[i] \in DecimalDigits
                 value(c) == Canonical([i \in DOMAIN c |-> DigitOf[c[i]]])
             IN  IF \A k \in 1..3 : numeric(comps[k]) /\ ~NumLess(U32_MAX, value(comps[k]))
                 THEN <<[k \in 1..3 |-> value(comps[k])]>>
                 ELSE <<>>

\* Strings the claim's wording leaves open and parse_semver accepts: more than
\* one leading 'v', or a component with a sign.
Lenient(s) ==
    \/ Len(s) >= 2 /\ s[1] = "v" /\ s[2] = "v"
    \/ \E i \in DOMAIN s : s[i] = "+"

\* (major, minor, patch) of r strictly above that of l, in lexicographic order.
LexGreater(r, l) ==
    \/ NumLess(l[1], r[1])
    \/ l[1] = r[1] /\ NumLess(l[2], r[2])
    \/ l[1] = r[1] /\ l[2] = r[2] /\ NumLess(l[3], r[3])

====
